---- MODULE Spec2Model ----
(***************************************************************************)
(* A model of iot2mqtt: the Dispatcher consumer loop (messenger.py), the   *)
(* three-stage refinement pipeline (central.py, processor.py) and the      *)
(* per-device timers of DeviceAccessor (central.py).                       *)
(*                                                                         *)
(* The specifications of the module share its variables:                   *)
(*   SpecDispatcher  one Dispatcher with two (predicate, handler) pairs    *)
(*                   and a default handler, its producers and stoppers;    *)
(*   SpecPipeline    Scrutinizer -> pipeline-discovery -> pipeline-layer1  *)
(*                   -> normalizer, as built by get_refined_data_queue;    *)
(*   SpecTimer       switch_power_change callers, _TimerManager and the    *)
(*                   threading.Timer threads it starts;                    *)
(*   SpecScrutinizer the MQTT message callback of the Scrutinizer and its  *)
(*                   put on a bounded raw queue;                           *)
(*   SpecCalls       a client that calls processors and accessors one      *)
(*                   after the other, on arguments drawn from small sets;  *)
(*   SpecClient      ClientHelper.start and stop, and the connect and      *)
(*                   disconnect callbacks of the MQTT network loop;        *)
(*   SpecBounded     one Dispatcher whose output queue is bounded, and the *)
(*                   consumer of that queue.                               *)
(***************************************************************************)
EXTENDS Integers, Sequences, FiniteSets, TLC

VARIABLES
    \* ---- SpecDispatcher
    dIn,        \* Dispatcher._input_queue
    dOut,       \* Dispatcher._output_queue
    dPc,        \* position of the consumer thread in Dispatcher._run
    dStopEvent, \* Dispatcher._stop_event
    dLog,       \* history: one entry per message the loop dequeued
    dPuts,      \* history: number of messages the producers have put
    dStopper,   \* position of the thread that calls stop_loop
    dStopAt     \* history: dPuts when stop_loop put STOP, -1 before

dispVars == <<dIn, dOut, dPc, dStopEvent, dLog, dPuts, dStopper, dStopAt>>

VARIABLES
    \* ---- SpecTimer
    tmLock,     \* _TimerManager._timer_registry_lock: the thread holding it, 0 when free
    tmRegistry, \* _TimerManager._timer_registry: device name -> timer, 0 when absent
    th,         \* the threads: callers of switch_power_change and threading.Timer threads
    published   \* the messages handed to ClientHelper.publish, in order

timerVars == <<tmLock, tmRegistry, th, published>>

VARIABLES
    \* ---- SpecPipeline
    pRaw,       \* _raw_data_queue
    pLayer1,    \* _layer1_queue
    pLayer2,    \* _layer2_queue
    pRefined,   \* _refined_queue
    pDirectory, \* DeviceDirectory._directory: device name -> Device
    pStage,     \* the consumer thread of each Dispatcher: "running" or "crashed"
    pPublished, \* the messages handed to ClientHelper.publish, in order
    pPutLog     \* history: the messages the Scrutinizer put on the raw queue

pipeVars == <<pRaw, pLayer1, pLayer2, pRefined, pDirectory, pStage, pPublished, pPutLog>>

VARIABLES
    \* ---- SpecScrutinizer
    sQueue,     \* Scrutinizer._output_queue, a bounded queue here
    sCb,        \* position of the MQTT thread in the message callback
    sLog        \* history: one entry per callback call that has ended

scrVars == <<sQueue, sCb, sLog>>

VARIABLES
    \* ---- SpecCalls
    fLog        \* history: the calls a client made, each with what it gave

callVars == <<fLog>>

VARIABLES
    \* ---- SpecClient
    mqContext,  \* ClientHelper._context: connected, started, loop_forever_used
    mqNet,      \* the paho client: socket, queued DISCONNECT, network loop thread
    mqCaller,   \* position of the thread that calls start and stop
    mqLog       \* history: one entry per call of start or stop that has ended

clientVars == <<mqContext, mqNet, mqCaller, mqLog>>

VARIABLES
    \* ---- SpecBounded
    bIn,        \* Dispatcher._input_queue
    bOut,       \* Dispatcher._output_queue, a bounded queue here
    bT,         \* the consumer thread: its position in _run, the result it puts
    bStopEvent, \* Dispatcher._stop_event
    bStopper,   \* position of the thread that calls stop_loop
    bPuts       \* history: number of messages the producers have put

boundedVars == <<bIn, bOut, bT, bStopEvent, bStopper, bPuts>>

vars == <<dispVars, timerVars, pipeVars, scrVars, callVars, clientVars, boundedVars>>

nonDispVars == <<timerVars, pipeVars, scrVars, callVars, clientVars, boundedVars>>
nonTimerVars == <<dispVars, pipeVars, scrVars, callVars, clientVars, boundedVars>>
nonPipeVars == <<dispVars, timerVars, scrVars, callVars, clientVars, boundedVars>>
nonScrVars == <<dispVars, timerVars, pipeVars, callVars, clientVars, boundedVars>>
nonCallVars == <<dispVars, timerVars, pipeVars, scrVars, clientVars, boundedVars>>
nonClientVars == <<dispVars, timerVars, pipeVars, scrVars, callVars, boundedVars>>
nonBoundedVars == <<dispVars, timerVars, pipeVars, scrVars, callVars, clientVars>>

(***************************************************************************)
(* Bounds of the model.                                                    *)
(***************************************************************************)
MaxPuts == 2
MaxCalls == 2
MaxMsgs == 3

(***************************************************************************)
(* The variables of a specification that does not use them.                *)
(***************************************************************************)
IdleDispatcher ==
    /\ dIn = <<>> /\ dOut = <<>> /\ dPc = "exited" /\ dStopEvent = FALSE
    /\ dLog = <<>> /\ dPuts = 0 /\ dStopper = "idle" /\ dStopAt = -1

IdleTimer ==
    /\ tmLock = 0 /\ tmRegistry = <<>> /\ th = <<>> /\ published = <<>>

IdlePipeline ==
    /\ pRaw = <<>> /\ pLayer1 = <<>> /\ pLayer2 = <<>> /\ pRefined = <<>>
    /\ pDirectory = <<>> /\ pStage = <<>> /\ pPublished = <<>> /\ pPutLog = <<>>

IdleScrutinizer ==
    /\ sQueue = <<>> /\ sCb = [pc |-> "idle"] /\ sLog = <<>>

IdleCalls == fLog = <<>>

IdleClient ==
    /\ mqContext = <<>> /\ mqNet = <<>> /\ mqCaller = [pc |-> "idle"] /\ mqLog = <<>>

IdleBounded ==
    /\ bIn = <<>> /\ bOut = <<>> /\ bT = [pc |-> "exited"] /\ bStopEvent = FALSE
    /\ bStopper = "idle" /\ bPuts = 0

(***************************************************************************)
(* JSON values and Python None, tagged so that any two of them compare.    *)
(***************************************************************************)
JNull == [j |-> "null"]
JStr(s) == [j |-> "str", s |-> s]
JNum(n) == [j |-> "num", n |-> n]
JDict(f) == [j |-> "dict", d |-> f]
JList(l) == [j |-> "list", l |-> l]
JBool(b) == [j |-> "bool", b |-> b]

\* dict.get(key): None when the key is absent
DictGet(o, k) == IF k \in DOMAIN o.d THEN o.d[k] ELSE JNull

(***************************************************************************)
(* abstract.py: the Switch state and its canonical instances; a state is   *)
(* the sequence of its (field, value) pairs in declaration order, as       *)
(* model_dump yields them.                                                 *)
(***************************************************************************)
POWER_ON == "ON"
POWER_OFF == "OFF"

Switch(power) ==
    << <<"last_seen", JNull>>, <<"power_on_behavior", JNull>>, <<"power", JStr(power)>> >>

SWITCH_ON == Switch(POWER_ON)
SWITCH_OFF == Switch(POWER_OFF)

\* BaseModel.model_dump(exclude_none=...)
ModelDump(state, excludeNone) ==
    SelectSeq(state, LAMBDA kv : ~excludeNone \/ kv[2] # JNull)

(***************************************************************************)
(* encoder.py: Encoder, EncoderRegistry, encode.                           *)
(***************************************************************************)
NoEncoder == [none |-> TRUE]

MkEncoder(settable, gettable, aliases) ==
    [settable_fields |-> settable, gettable_fields |-> gettable,
     field_aliases |-> aliases, field_converters |-> <<>>]

\* the registry after the module-level EncoderRegistry(...) calls
EncoderRegistry(model) ==
    CASE model \in {"SN_MINI", "SN_MINI_L2", "SN_SMART_PLUG"} ->
            MkEncoder(<<"state">>, <<"state">>, [power |-> "state"])
      [] model = "SHELLY_PLUGS" ->
            MkEncoder(<<"Power">>, <<"Power">>, [power |-> "Power"])
      [] model = "SHELLY_UNI" ->
            MkEncoder(<<"Power1", "Power2">>, <<"Power1", "Power2">>,
                      [power1 |-> "Power1", power2 |-> "Power2"])
      [] model = "NEO_ALARM" ->
            MkEncoder(<<"alarm", "duration", "melody", "volume">>, <<>>, <<>>)
      [] model = "SRTS_A01" ->
            MkEncoder(<<"child_lock", "external_temperature_input",
                        "occupied_heating_setpoint", "preset", "schedule_settings",
                        "schedule", "schedule_settings", "sensor", "system_mode",
                        "valve_detection", "window_detection">>,
                      <<"child_lock">>, <<>>)
      [] OTHER -> NoEncoder

\* a transform that keeps the names of the fields
TransformWithoutAliases(enc, state) ==
    LET dump == ModelDump(state, TRUE) IN
    [i \in 1..Len(dump) |-> <<dump[i][1], dump[i][2]>>]

\* Encoder.transform: every non-None field, its key replaced by its alias
\* (no converter is registered for any model)
Transform(enc, state) ==
    LET dump == ModelDump(state, TRUE) IN
    [i \in 1..Len(dump) |->
        <<IF dump[i][1] \in DOMAIN enc.field_aliases
          THEN enc.field_aliases[dump[i][1]] ELSE dump[i][1],
          dump[i][2]>>]

\* Encoder.check_compliance: every key is a settable field
CheckCompliance(enc, state_dump) ==
    \A i \in 1..Len(state_dump) :
        \E k \in 1..Len(enc.settable_fields) : enc.settable_fields[k] = state_dump[i][1]

\* encoder.encode
Encode(model, state) ==
    IF EncoderRegistry(model) = NoEncoder THEN ModelDump(state, FALSE)
    ELSE Transform(EncoderRegistry(model), state)

(***************************************************************************)
(* central.py: command topics and DeviceAccessor.trigger_change_state.     *)
(***************************************************************************)
\* _CommandTopicManager.configure_topic_registry
CommandBaseTopic(protocol) ==
    CASE protocol = "Z2M" -> "zigbee2mqtt"
      [] protocol = "TASMOTA" -> "cmnd"

\* the publishes of trigger_change_state, in order; a topic is the sequence
\* of its levels, a Z2M payload the JSON object, a TASMOTA payload str(value)
ChangeStatePublishes(device, protocol, state) ==
    CASE protocol = "Z2M" ->
            << [topic |-> <<CommandBaseTopic(protocol), device, "set">>,
                json |-> state, text |-> ""] >>
      [] protocol = "TASMOTA" ->
            [i \in 1..Len(state) |->
                [topic |-> <<CommandBaseTopic(protocol), device, state[i][1]>>,
                 json |-> <<>>,
                 text |-> IF state[i][2] = JNull THEN "None" ELSE state[i][2].s]]

\* DeviceAccessor._do_switch_power
DoSwitchPowerPublishes(device, protocol, model, power_on) ==
    ChangeStatePublishes(device, protocol,
                         Encode(model, IF power_on THEN SWITCH_ON ELSE SWITCH_OFF))

(***************************************************************************)
(* Exceptions.  NoExc is "no exception"; the others are the names of the   *)
(* Python exception classes the code raises.                               *)
(***************************************************************************)
NoExc == "none"

\* messenger.py:336  `except TypeError as e:` is the only handler of _run
CaughtByRun(exc) == exc = "TypeError"

(***************************************************************************)
(* The result of a handler call: what it returned ("msg" or "None"), the   *)
(* message as the call left it, the shared objects as it left them and     *)
(* the exception it raised.                                                *)
(***************************************************************************)
Return(msg, env) == [ret |-> "msg", msg |-> msg, env |-> env, exc |-> NoExc]
ReturnNone(msg, env) == [ret |-> "None", msg |-> msg, env |-> env, exc |-> NoExc]
Raise(e, msg, env) == [ret |-> "None", msg |-> msg, env |-> env, exc |-> e]

(***************************************************************************)
(* dev.py: Model and Device.  A Model is named by its enum member; the     *)
(* Python None of Message.model is NoModel.                                *)
(***************************************************************************)
NoModel == "null"
NoTag == "null"
NoRefined == [cls |-> "None"]

\* dev.Model.from_str
ModelFromStr(label) ==
    IF label = JNull THEN "NONE"
    ELSE IF label.j # "str" THEN "UNKNOWN"
    ELSE CASE label.s = "Miflora" -> "MIFLORA"
           [] label.s = "NAS-AB02B2" -> "NEO_ALARM"
           [] label.s = "RingCamera" -> "RING_CAMERA"
           [] label.s = "Shelly Plug S" -> "SHELLY_PLUGS"
           [] label.s = "Shelly Uni" -> "SHELLY_UNI"
           [] label.s = "SRTS-A01" -> "SRTS_A01"
           [] label.s = "TS0601_soil" -> "TUYA_SOIL"
           [] label.s = "SNZB-02" -> "SN_AIRSENSOR"
           [] label.s = "SNZB-01" -> "SN_BUTTON"
           [] label.s = "SNZB-03" -> "SN_MOTION"
           [] label.s = "ZBMINI-L" -> "SN_MINI"
           [] label.s = "ZBMINIL2" -> "SN_MINI_L2"
           [] label.s = "S26R2ZB" -> "SN_SMART_PLUG"
           [] label.s = "Sonoff ZbBridge" -> "SN_ZBBRIDGE"
           [] label.s = "None" -> "NONE"
           [] OTHER -> "UNKNOWN"

\* dev.Device(name=..., protocol=..., address=..., model=...) passes the
\* validation: name is a str, address a str or None
DeviceValid(name, address) == name.j = "str" /\ address.j \in {"str", "null"}

Device(name, protocol, address, model) ==
    [name |-> name.s, protocol |-> protocol, address |-> address, model |-> model]

(***************************************************************************)
(* abstract.py: validation of a raw mapping by a DeviceState class.  A     *)
(* field is its name, its validation aliases in order, whether it is       *)
(* required, whether it accepts None and the kind of value it accepts.     *)
(***************************************************************************)
Fld(name, aliases, required, nullable, kind) ==
    [name |-> name, aliases |-> aliases, required |-> required,
     nullable |-> nullable, kind |-> kind]

\* name: Optional[kind] = None
Opt(name, kind) == Fld(name, <<name>>, FALSE, TRUE, kind)

Literal(choices) == [k |-> "literal", choices |-> choices]
ConFloat(gt, lt) == [k |-> "confloat", gt |-> gt, lt |-> lt]
Plain(k) == [k |-> k]

LastSeen == Fld("last_seen", <<"last_seen", "Time">>, FALSE, TRUE, Plain("datetime"))

Schema(cls) ==
    CASE cls = "Switch" ->
            << LastSeen,
               Opt("power_on_behavior", Plain("str")),
               Fld("power", <<"power", "state", "POWER">>, TRUE, TRUE,
                   Literal({"ON", "OFF"})) >>
      [] cls = "Switch2Channels" ->
            << LastSeen,
               Fld("power1", <<"power1", "POWER1">>, FALSE, TRUE,
                   Literal({"ON", "OFF"})),
               Fld("power2", <<"power2", "POWER2">>, FALSE, TRUE,
                   Literal({"ON", "OFF"})) >>
      [] cls = "AirSensor" ->
            << LastSeen, Opt("humidity", Plain("float")),
               Opt("temperature", Plain("float")) >>
      [] cls = "Motion" ->
            << LastSeen, Opt("occupancy", Plain("bool")), Opt("tamper", Plain("bool")) >>
      [] cls = "Button" ->
            << LastSeen,
               Fld("action", <<"action">>, FALSE, FALSE,
                   Literal({"single", "double", "long"})) >>
      [] cls = "Alarm" ->
            << LastSeen, Opt("alarm", Plain("bool")), Opt("battery_low", Plain("bool")),
               Opt("duration", Plain("int")), Opt("melody", Plain("int")),
               Opt("volume", Literal({"low", "medium", "high"})) >>
      [] cls = "SrtsA01" ->
            << LastSeen,
               Opt("away_preset_temperature", ConFloat(-10, 35)),
               Opt("battery", Plain("int")),
               Opt("calibrated", Plain("bool")),
               Opt("child_lock", Plain("bool")),
               Opt("device_temperature", Plain("float")),
               Opt("external_temperature_input", ConFloat(0, 55)),
               Opt("internal_heating_setpoint", Plain("float")),
               Opt("linkquality", Plain("int")),
               Opt("local_temperature", Plain("float")),
               Opt("occupied_heating_setpoint", ConFloat(5, 30)),
               Opt("power_outage_count", Plain("int")),
               Opt("preset", Literal({"manual", "away", "auto"})),
               Opt("schedule", Plain("bool")),
               Opt("schedule_settings", Plain("str")),
               Opt("sensor", Literal({"internal", "external"})),
               Opt("setup", Plain("bool")),
               Opt("system_mode", Literal({"off", "heat"})),
               Opt("update", Plain("dict")),
               Opt("valve_alarm", Plain("bool")),
               Opt("valve_detection", Plain("bool")),
               Opt("voltage", Plain("int")),
               Opt("window_detection", Plain("bool")),
               Opt("window_open", Plain("bool")) >>

\* the value the mapping gives a field: that of its first alias present
FieldValue(f, data) ==
    LET present == SelectSeq(f.aliases, LAMBDA a : a \in DOMAIN data.d) IN
    IF present = <<>> THEN [given |-> FALSE, v |-> JNull]
    ELSE [given |-> TRUE, v |-> data.d[Head(present)]]

\* strings that parse as a datetime
IsoDateTimes == {"2024-06-01T12:00:00"}

\* a check whose numeric bounds are inclusive
KindOKInclusive(kind, v) ==
    CASE kind.k = "literal" -> v.j = "str" /\ v.s \in kind.choices
      [] kind.k = "confloat" -> v.j = "num" /\ v.n >= kind.gt /\ v.n <= kind.lt
      [] kind.k \in {"float", "int"} -> v.j = "num"
      [] kind.k = "str" -> v.j = "str"
      [] kind.k = "dict" -> v.j = "dict"
      [] kind.k = "bool" -> v.j = "bool"
      [] kind.k = "datetime" -> v.j = "str" /\ v.s \in IsoDateTimes

\* a non-null value is of the field's kind (numbers are integers here)
KindOK(kind, v) ==
    CASE kind.k = "literal" -> v.j = "str" /\ v.s \in kind.choices
      [] kind.k = "confloat" -> v.j = "num" /\ v.n > kind.gt /\ v.n < kind.lt
      [] kind.k \in {"float", "int"} -> v.j = "num"
      [] kind.k = "str" -> v.j = "str"
      [] kind.k = "dict" -> v.j = "dict"
      [] kind.k = "bool" -> v.j = "bool"
      [] kind.k = "datetime" -> v.j = "str" /\ v.s \in IsoDateTimes

ValueOK(f, fv) ==
    IF ~fv.given THEN ~f.required
    ELSE IF fv.v = JNull THEN f.nullable
    ELSE KindOK(f.kind, fv.v)

FieldOK(f, data) == ValueOK(f, FieldValue(f, data))

ValidateFields(fields, data) ==
    [ok |-> \A i \in 1..Len(fields) : FieldOK(fields[i], data),
     state |-> [i \in 1..Len(fields) |-> <<fields[i].name, FieldValue(fields[i], data).v>>]]

\* cls(**data): whether the validation passes, and the state it builds
Validate(cls, data) == ValidateFields(Schema(cls), data)

Availability(isOnline) == [cls |-> "Availability", is_online |-> isOnline]
Registry(names) == [cls |-> "Registry", device_names |-> names]

(***************************************************************************)
(* processor.py and central.py: the handlers of the pipeline.  env.dir is  *)
(* DeviceDirectory._directory (device name -> Device), env.pubs the        *)
(* messages handed to ClientHelper.publish during the call.                *)
(***************************************************************************)
\* an update that made the directory the devices of the list
ReplaceDevices(dir, devices) ==
    LET names == {devices[i].name : i \in 1..Len(devices)}
        last(n) == CHOOSE i \in 1..Len(devices) :
                      /\ devices[i].name = n
                      /\ \A k \in 1..Len(devices) : devices[k].name = n => k <= i
    IN [n \in names |-> devices[last(n)]]

\* DeviceDirectory.update_devices: dict.update, a later device of the list
\* replaces an earlier one of the same name
UpdateDevices(dir, devices) ==
    LET names == {devices[i].name : i \in 1..Len(devices)}
        last(n) == CHOOSE i \in 1..Len(devices) :
                      /\ devices[i].name = n
                      /\ \A k \in 1..Len(devices) : devices[k].name = n => k <= i
    IN [n \in DOMAIN dir \cup names |->
           IF n \in names THEN devices[last(n)] ELSE dir[n]]

Z2MDeviceTypes == {JStr("EndDevice"), JStr("Router")}

\* entry.get("definition", {})
Z2MDefinition(entry) ==
    IF "definition" \in DOMAIN entry.d THEN entry.d["definition"] ELSE JDict(<<>>)

\* the exception that building the Device of a Z2M entry raises
Z2MEntryExc(entry) ==
    IF Z2MDefinition(entry).j # "dict" THEN "AttributeError"
    ELSE IF ~DeviceValid(DictGet(entry, "friendly_name"), DictGet(entry, "ieee_address"))
    THEN "ValidationError"
    ELSE NoExc

\* Discoverer._discover_z2m
DiscoverZ2M(msg, env) ==
    LET data == msg.raw_item.data IN
    IF data.j # "list" THEN Raise("DecodingException", msg, env)
    ELSE
      LET selected == SelectSeq(data.l, LAMBDA e : DictGet(e, "type") \in Z2MDeviceTypes)
          bad == {i \in 1..Len(selected) : Z2MEntryExc(selected[i]) # NoExc}
          devices == [i \in 1..Len(selected) |->
                        Device(DictGet(selected[i], "friendly_name"), "Z2M",
                               DictGet(selected[i], "ieee_address"),
                               ModelFromStr(DictGet(Z2MDefinition(selected[i]), "model")))]
          names == [i \in 1..Len(selected) |-> DictGet(selected[i], "friendly_name").s]
      IN IF bad # {}
         THEN Raise(Z2MEntryExc(selected[CHOOSE i \in bad : \A k \in bad : i <= k]),
                    msg, env)
         ELSE Return([msg EXCEPT !.refined = Registry(names)],
                     [env EXCEPT !.dir = UpdateDevices(env.dir, devices)])

\* Discoverer._discover_tasmota
DiscoverTasmota(msg, env) ==
    LET data == msg.raw_item.data IN
    IF data.j # "dict" THEN Raise("DecodingException", msg, env)
    ELSE IF ~({"hn", "t", "md"} \subseteq DOMAIN data.d)
    THEN Raise("DecodingException", msg, env)
    ELSE IF ~DeviceValid(data.d["t"], data.d["hn"])
    THEN Raise("ValidationError", msg, env)
    ELSE Return([msg EXCEPT !.refined = Registry(<<data.d["t"].s>>)],
                [env EXCEPT !.dir =
                    UpdateDevices(env.dir,
                                  <<Device(data.d["t"], "TASMOTA", data.d["hn"],
                                           ModelFromStr(data.d["md"]))>>)])

\* Discoverer.process
DiscovererProcess(msg, env) ==
    IF msg.message_type # "DISCO" THEN Raise("DecodingException", msg, env)
    ELSE LET m == [msg EXCEPT !.model = "NONE"] IN
         CASE msg.protocol = "Z2M" -> DiscoverZ2M(m, env)
           [] msg.protocol = "TASMOTA" -> DiscoverTasmota(m, env)
           [] OTHER -> Return(m, env)

ModelResolverDropUnknown(msg, env) ==
    IF msg.message_type = "DISCO" THEN Raise("DecodingException", msg, env)
    ELSE IF msg.device_name \in DOMAIN env.dir
    THEN Return([msg EXCEPT !.model = env.dir[msg.device_name].model], env)
    ELSE ReturnNone(msg, env)

\* ModelResolver.process
ModelResolverProcess(msg, env) ==
    IF msg.message_type = "DISCO" THEN Raise("DecodingException", msg, env)
    ELSE Return([msg EXCEPT !.model =
                    IF msg.device_name \in DOMAIN env.dir
                    THEN env.dir[msg.device_name].model
                    ELSE "UNKNOWN"], env)

\* DeviceAccessor.trigger_get_state: its publishes, in order
GetStatePublishes(device, protocol, model) ==
    LET enc == EncoderRegistry(model) IN
    IF enc = NoEncoder THEN <<>>
    ELSE CASE protocol = "Z2M" ->
                << [topic |-> <<CommandBaseTopic(protocol), device, "get">>,
                    json |-> [i \in 1..Len(enc.gettable_fields) |->
                                 <<enc.gettable_fields[i], JStr("")>>],
                    text |-> ""] >>
           [] protocol = "TASMOTA" ->
                [i \in 1..Len(enc.gettable_fields) |->
                    [topic |-> <<CommandBaseTopic(protocol), device,
                                 enc.gettable_fields[i]>>,
                     json |-> <<>>, text |-> ""]]

RECURSIVE GetStateOfAll(_, _)
GetStateOfAll(names, dir) ==
    IF names = <<>> THEN <<>>
    ELSE GetStatePublishes(Head(names), dir[Head(names)].protocol,
                           dir[Head(names)].model)
         \o GetStateOfAll(Tail(names), dir)

\* a _get_device_state that asks for the state of the first name only
GetDeviceStateOfFirst(msg, env) ==
    IF msg.refined = NoRefined THEN Raise("AttributeError", msg, env)
    ELSE IF \E i \in 1..Len(msg.refined.device_names) :
                msg.refined.device_names[i] \notin DOMAIN env.dir
    THEN Raise("AttributeError", msg, env)
    ELSE IF msg.refined.device_names = <<>> THEN Return(msg, env)
    ELSE Return(msg, [env EXCEPT !.pubs =
                         @ \o GetStateOfAll(<<Head(msg.refined.device_names)>>, env.dir)])

\* central._get_device_state
GetDeviceState(msg, env) ==
    IF msg.refined = NoRefined THEN Raise("AttributeError", msg, env)
    ELSE IF \E i \in 1..Len(msg.refined.device_names) :
                msg.refined.device_names[i] \notin DOMAIN env.dir
    THEN Raise("AttributeError", msg, env)
    ELSE Return(msg, [env EXCEPT !.pubs =
                         @ \o GetStateOfAll(msg.refined.device_names, env.dir)])

\* a decoding that takes every token but the online one for offline
DecodeAvailabilityLenient(value, onToken, offToken, msg, env) ==
    Return([msg EXCEPT !.refined = Availability(value = JStr(onToken))], env)

\* AvailabilityNormalizer._decode_availability
DecodeAvailability(value, onToken, offToken, msg, env) ==
    IF value \notin {JStr(onToken), JStr(offToken)}
    THEN Raise("DecodingException", msg, env)
    ELSE Return([msg EXCEPT !.refined = Availability(value = JStr(onToken))], env)

\* AvailabilityNormalizer.process
AvailabilityNormalizerProcess(msg, env) ==
    LET data == msg.raw_item.data IN
    IF msg.message_type # "AVAIL" THEN Raise("DecodingException", msg, env)
    ELSE CASE msg.protocol = "TASMOTA" ->
                DecodeAvailability(data, "Online", "Offline", msg, env)
           [] msg.protocol = "Z2M" ->
                IF data.j = "dict"
                THEN DecodeAvailability(DictGet(data, "state"), "online", "offline",
                                        msg, env)
                ELSE IF data.j = "str"
                THEN DecodeAvailability(data, "online", "offline", msg, env)
                ELSE Raise("DecodingException", msg, env)
           [] OTHER -> Raise("DecodingException", msg, env)

\* a table that gives every other model the Switch variant
RefineConfigSwitchByDefault(model) ==
    CASE model = "SN_AIRSENSOR" -> "AirSensor"
      [] model = "SHELLY_UNI" -> "Switch2Channels"
      [] model = "SN_MOTION" -> "Motion"
      [] model = "SN_BUTTON" -> "Button"
      [] model = "SRTS_A01" -> "SrtsA01"
      [] model = "NEO_ALARM" -> "Alarm"
      [] OTHER -> "Switch"

\* StateNormalizer._REFINE_CONFIG.get(model)
RefineConfig(model) ==
    CASE model = "SN_AIRSENSOR" -> "AirSensor"
      [] model \in {"SN_MINI", "SN_MINI_L2", "SN_SMART_PLUG", "SHELLY_PLUGS"} -> "Switch"
      [] model = "SHELLY_UNI" -> "Switch2Channels"
      [] model = "SN_MOTION" -> "Motion"
      [] model = "SN_BUTTON" -> "Button"
      [] model = "SRTS_A01" -> "SrtsA01"
      [] model = "NEO_ALARM" -> "Alarm"
      [] OTHER -> "None"

\* message.refined = _target_class(**_raw_data); return message, or the
\* exception that stands for the ValidationError
Refine(cls, v, exc, msg, env) ==
    IF v.ok THEN Return([msg EXCEPT !.refined = [cls |-> cls, state |-> v.state]], env)
    ELSE Raise(exc, msg, env)

StateNormalizerForwardAll(msg, env) == Return(msg, env)

\* StateNormalizer.process
StateNormalizerProcess(msg, env) ==
    LET data == msg.raw_item.data
        tag == msg.raw_item.tag
        cls == RefineConfig(msg.model)
    IN
    IF msg.message_type # "STATE" THEN Raise("DecodingException", msg, env)
    ELSE IF msg.protocol = "Z2M"
    THEN IF cls = "None" THEN ReturnNone(msg, env)
         ELSE IF data.j # "dict" THEN Raise("DecodingException", msg, env)
         ELSE Refine(cls, Validate(cls, data), "DecodingException", msg, env)
    ELSE IF msg.protocol = "TASMOTA" /\ tag = "STATE"
    THEN IF data = JNull THEN Raise("DecodingException", msg, env)
         ELSE IF cls = "None" THEN ReturnNone(msg, env)
         ELSE IF data.j # "dict" THEN Raise("TypeError", msg, env)
         ELSE Refine(cls, Validate(cls, data), "ValidationError", msg, env)
    ELSE IF msg.protocol = "TASMOTA" /\ tag = "SENSOR"
    THEN IF data.j # "dict" THEN Raise("AttributeError", msg, env)
         ELSE Return(msg, env)
    ELSE ReturnNone(msg, env)

(***************************************************************************)
(* Abstract predicates and handlers of a generic Dispatcher.  A message of *)
(* SpecDispatcher carries what each predicate of the list answers for it   *)
(* ("T", "F", or "TypeError" when the predicate raises, as                 *)
(* _check_message_typing does) and what the handler that gets it does:     *)
(* returns the message, returns None, or raises.                           *)
(***************************************************************************)
CondOutcomes == {"T", "F", "TypeError"}
HandlerOutcomes == {"msg", "None", "TypeError", "DecodingException", "ValidationError"}

Bool(b) == IF b THEN "T" ELSE "F"

Cond(c, msg) ==
    CASE c = "p1" -> msg.conds[1]
      [] c = "p2" -> msg.conds[2]
      [] c = "is_type_discovery" -> Bool(msg.message_type = "DISCO")
      [] c = "not is_type_discovery" -> Bool(~(msg.message_type = "DISCO"))
      [] c = "is_type_availability" -> Bool(msg.message_type = "AVAIL")
      [] c = "is_type_state" -> Bool(msg.message_type = "STATE")

\* [ret, msg, env, exc]: the handler's return value ("msg" or "None"), the
\* message as the handler left it, the environment as it left it, and the
\* exception it raised.
Apply(h, msg, env) ==
    CASE h \in {"h1", "h2", "hdef"} ->
            IF msg.out \in {"msg", "None"}
            THEN [ret |-> msg.out, msg |-> msg, env |-> env, exc |-> NoExc]
            ELSE [ret |-> "None", msg |-> msg, env |-> env, exc |-> msg.out]
      [] h = "Discoverer.process" -> DiscovererProcess(msg, env)
      [] h = "Processor.pass_through" -> Return(msg, env)
      [] h = "ModelResolver.process" -> ModelResolverProcess(msg, env)
      [] h = "_get_device_state" -> GetDeviceState(msg, env)
      [] h = "AvailabilityNormalizer.process" -> AvailabilityNormalizerProcess(msg, env)
      [] h = "StateNormalizer.process" -> StateNormalizerProcess(msg, env)

(***************************************************************************)
(* Dispatcher._process_and_put and the body of the loop of Dispatcher._run *)
(* for one dequeued message.  st is the state of the iteration:            *)
(*   msg     the message object (handlers mutate it in place)              *)
(*   env     what handlers read and write outside the message              *)
(*   found   _found                                                        *)
(*   brk     the for loop was left by `break`                              *)
(*   exc     the exception that left the try block                         *)
(*   src     who raised it: "predicate" or "handler"                       *)
(*   tested  the predicates evaluated, in order                            *)
(*   invoked the handlers called, in order                                 *)
(*   puts    the messages put on the output queue, in order                *)
(***************************************************************************)
\* the rest of _process_and_put once handler(message) has given r
PutResult(hasOut, s1, r) ==
    IF r.exc # NoExc THEN [s1 EXCEPT !.exc = r.exc, !.src = "handler"]
    ELSE IF ~hasOut THEN s1
    ELSE IF r.ret = "None" THEN s1
    ELSE [s1 EXCEPT !.puts = Append(@, r.msg)]

\* the iteration state once handler h has been called with result r
Called(h, st, r) == [st EXCEPT !.invoked = Append(@, h), !.msg = r.msg, !.env = r.env]

HandlerResult(h, hasOut, st, r) == PutResult(hasOut, Called(h, st, r), r)

ProcessAndPut(h, hasOut, st) == HandlerResult(h, hasOut, st, Apply(h, st.msg, st.env))

\* a for loop that took a raising predicate for one that answers false
RECURSIVE ForPairsPastRaise(_, _, _, _)
ForPairsPastRaise(pairs, i, hasOut, st) ==
    IF i > Len(pairs) \/ st.exc # NoExc \/ st.brk THEN st
    ELSE LET c == Cond(pairs[i][1], st.msg)
             s0 == [st EXCEPT !.tested = Append(@, pairs[i][1])]
         IN ForPairsPastRaise(pairs, i + 1, hasOut,
                              IF c # "T" THEN s0
                              ELSE IF s0.found THEN [s0 EXCEPT !.brk = TRUE]
                              ELSE ProcessAndPut(pairs[i][2], hasOut,
                                                 [s0 EXCEPT !.found = TRUE]))

\* messenger.py:319-332  the for loop over self.conditional_handlers
RECURSIVE ForPairs(_, _, _, _)
ForPairs(pairs, i, hasOut, st) ==
    IF i > Len(pairs) \/ st.exc # NoExc \/ st.brk THEN st
    ELSE LET c == Cond(pairs[i][1], st.msg)
             s0 == [st EXCEPT !.tested = Append(@, pairs[i][1])]
         IN IF c \notin {"T", "F"} THEN [s0 EXCEPT !.exc = c, !.src = "predicate"]
            ELSE ForPairs(pairs, i + 1, hasOut,
                          IF c = "F" THEN s0
                          ELSE IF s0.found THEN [s0 EXCEPT !.brk = TRUE]
                          ELSE ProcessAndPut(pairs[i][2], hasOut,
                                             [s0 EXCEPT !.found = TRUE]))

\* the state of an iteration before the for loop
Dequeued(msg, env) ==
    [msg |-> msg, env |-> env, found |-> FALSE, brk |-> FALSE,
     exc |-> NoExc, src |-> "", tested |-> <<>>, invoked |-> <<>>, puts |-> <<>>]

\* messenger.py:334-335  if not _found: the default handler
AfterPairs(default, hasOut, s1) ==
    IF s1.exc = NoExc /\ ~s1.found THEN ProcessAndPut(default, hasOut, s1) ELSE s1

AfterPairsAlwaysDefault(default, hasOut, s1) ==
    IF s1.exc = NoExc THEN ProcessAndPut(default, hasOut, s1) ELSE s1

\* RunMessage without the `if not _found` guard of the default handler
RunMessageAlwaysDefault(pairs, default, hasOut, msg, env) ==
    AfterPairsAlwaysDefault(default, hasOut,
                            ForPairs(pairs, 1, hasOut, Dequeued(msg, env)))

RunMessage(pairs, default, hasOut, msg, env) ==
    AfterPairs(default, hasOut, ForPairs(pairs, 1, hasOut, Dequeued(msg, env)))

\* The thread of _run after one iteration: an exception the loop does not
\* catch ends the thread.
AfterRun(st) == IF st.exc = NoExc \/ CaughtByRun(st.exc) THEN "check" ELSE "crashed"

(***************************************************************************)
(* SpecDispatcher: one Dispatcher, its producers and its stoppers.         *)
(***************************************************************************)
DPairs == <<<<"p1", "h1">>, <<"p2", "h2">>>>
DDefault == "hdef"

\* Dispatcher.STOP, messenger.py:225; queue items are tagged so that the
\* sentinel and a Message compare unequal.
STOP == [kind |-> "STOP"]

DMessages(id) ==
    { [kind |-> "msg", id |-> id, conds |-> <<c1, c2>>, out |-> o] :
        c1 \in CondOutcomes, c2 \in CondOutcomes, o \in HandlerOutcomes }

InitDispatcher ==
    /\ IdleCalls
    /\ IdleClient
    /\ IdleBounded
    /\ IdleTimer
    /\ IdlePipeline
    /\ IdleScrutinizer
    /\ dIn = <<>>
    /\ dOut = <<>>
    /\ dPc = "check"
    /\ dStopEvent = FALSE
    /\ dLog = <<>>
    /\ dPuts = 0
    /\ dStopper = "idle"
    /\ dStopAt = -1

\* a producer puts a message on the input queue (Producer.put, or any
\* upstream stage)
DPut ==
    /\ dPuts < MaxPuts
    /\ \E m \in DMessages(dPuts + 1) : dIn' = Append(dIn, m)
    /\ dPuts' = dPuts + 1
    /\ UNCHANGED <<dOut, dPc, dStopEvent, dLog, dStopper, dStopAt>>
    /\ UNCHANGED nonDispVars

\* a loop that never tests the stop flag
DLoopCheckIgnoringStop ==
    /\ dPc = "check"
    /\ dPc' = "get"
    /\ UNCHANGED <<dIn, dOut, dStopEvent, dLog, dPuts, dStopper, dStopAt>>
    /\ UNCHANGED nonDispVars

\* messenger.py:301  while not self._stop_event.is_set()
DLoopCheck ==
    /\ dPc = "check"
    /\ dPc' = IF dStopEvent THEN "exited" ELSE "get"
    /\ UNCHANGED <<dIn, dOut, dStopEvent, dLog, dPuts, dStopper, dStopAt>>
    /\ UNCHANGED nonDispVars

\* messenger.py:302-307  get(timeout=1) found the queue empty: continue
DLoopTimeout ==
    /\ dPc = "get"
    /\ dIn = <<>>
    /\ dPc' = "check"
    /\ UNCHANGED <<dIn, dOut, dStopEvent, dLog, dPuts, dStopper, dStopAt>>
    /\ UNCHANGED nonDispVars

\* messenger.py:309-311  the STOP sentinel: break
DLoopStop ==
    /\ dPc = "get"
    /\ dIn # <<>>
    /\ Head(dIn) = STOP
    /\ dIn' = Tail(dIn)
    /\ dPc' = "exited"
    /\ UNCHANGED <<dOut, dStopEvent, dLog, dPuts, dStopper, dStopAt>>
    /\ UNCHANGED nonDispVars

\* messenger.py:317-342  one message dispatched
DLoopDispatch ==
    /\ dPc = "get"
    /\ dIn # <<>>
    /\ Head(dIn) # STOP
    /\ \E st \in {RunMessage(DPairs, DDefault, TRUE, Head(dIn), <<>>)} :
         /\ dIn' = Tail(dIn)
         /\ dOut' = dOut \o st.puts
         /\ dLog' = Append(dLog, [msg |-> Head(dIn), invoked |-> st.invoked,
                                  tested |-> st.tested,
                                  nputs |-> Len(st.puts), exc |-> st.exc,
                                  src |-> st.src, stopSet |-> dStopEvent])
         /\ dPc' = AfterRun(st)
    /\ UNCHANGED <<dStopEvent, dPuts, dStopper, dStopAt>>
    /\ UNCHANGED nonDispVars

\* messenger.py:347  stop_loop: self._input_queue.put(self.STOP)
DStopLoopPut ==
    /\ dStopper = "idle"
    /\ dIn' = Append(dIn, STOP)
    /\ dStopper' = "join"
    /\ dStopAt' = dPuts
    /\ UNCHANGED <<dOut, dPc, dStopEvent, dLog, dPuts>>
    /\ UNCHANGED nonDispVars

\* messenger.py:348  stop_loop: self._thread.join() returns once the thread ended
DStopLoopJoin ==
    /\ dStopper = "join"
    /\ dPc \in {"exited", "crashed"}
    /\ dStopper' = "returned"
    /\ UNCHANGED <<dIn, dOut, dPc, dStopEvent, dLog, dPuts, dStopAt>>
    /\ UNCHANGED nonDispVars

\* messenger.py:365  force_stop: self._stop_event.set()
DForceStop ==
    /\ ~dStopEvent
    /\ dStopEvent' = TRUE
    /\ UNCHANGED <<dIn, dOut, dPc, dLog, dPuts, dStopper, dStopAt>>
    /\ UNCHANGED nonDispVars

NextDispatcher ==
    \/ DPut
    \/ DLoopCheck
    \/ DLoopTimeout
    \/ DLoopStop
    \/ DLoopDispatch
    \/ DStopLoopPut
    \/ DStopLoopJoin
    \/ DForceStop

SpecDispatcher ==
    InitDispatcher /\ [][NextDispatcher]_vars

\* the consumer thread is scheduled, and get(timeout=1) returns: each step of
\* _run that can be taken is eventually taken
SpecDispatcherFair ==
    /\ SpecDispatcher
    /\ WF_vars(DLoopCheck)
    /\ WF_vars(DLoopTimeout)
    /\ WF_vars(DLoopStop)
    /\ WF_vars(DLoopDispatch)

(***************************************************************************)
(* Claims about the Dispatcher (SpecDispatcher).                           *)
(***************************************************************************)
DLogIds == { dLog[i].msg.id : i \in 1..Len(dLog) }

\* C2: when a handler raises an exception of any kind while processing a
\* message, the exception is caught inside the consumer loop and the loop
\* stays alive (the thread of _run is not ended by the exception).
C2_HandlerExceptionKeepsLoopAlive ==
    (\E i \in 1..Len(dLog) : dLog[i].exc # NoExc /\ dLog[i].src = "handler")
        => dPc # "crashed"

\* The handler the claim C9 names for a message: the handler of the first
\* pair in list order whose predicate holds, the default handler when no
\* predicate holds.
RECURSIVE FirstHolding(_, _)
FirstHolding(conds, i) ==
    IF i > Len(conds) THEN 0
    ELSE IF conds[i] = "T" THEN i ELSE FirstHolding(conds, i + 1)

ExpectedHandler(conds) ==
    IF FirstHolding(conds, 1) = 0 THEN DDefault
    ELSE DPairs[FirstHolding(conds, 1)][2]

\* a predicate raises before any predicate of the list has held
RaisesBeforeMatch(conds) ==
    \E i \in 1..Len(conds) :
        /\ conds[i] = "TypeError"
        /\ \A j \in 1..(i - 1) : conds[j] = "F"

\* C9 as stated: for each message the Dispatcher dequeues exactly one handler
\* is invoked, the handler of the first pair whose predicate holds or the
\* default handler when no predicate holds, and the message is never
\* forwarded twice.
C9_ExactlyOneHandler ==
    \A i \in 1..Len(dLog) :
        /\ dLog[i].invoked = <<ExpectedHandler(dLog[i].msg.conds)>>
        /\ dLog[i].nputs <= 1

\* C9 amended: for each message the Dispatcher dequeues at most one handler is
\* invoked and the message is forwarded at most once; the handler invoked is
\* that of the first pair whose predicate holds, or the default handler when
\* every predicate answers false; when a predicate raises TypeError before
\* any predicate has held, no handler is invoked, not even the default.
C9_FirstMatchOnly ==
    \A i \in 1..Len(dLog) :
        /\ dLog[i].invoked =
              IF RaisesBeforeMatch(dLog[i].msg.conds) THEN <<>>
              ELSE <<ExpectedHandler(dLog[i].msg.conds)>>
        /\ dLog[i].nputs <= 1

\* C9 witness: a message both predicates hold for was dispatched to the
\* first handler only, and a message no predicate holds for to the default
\* handler.
C9_Witness ==
    /\ \E i \in 1..Len(dLog) :
          dLog[i].msg.conds = <<"T", "T">> /\ dLog[i].invoked = <<"h1">>
    /\ \E i \in 1..Len(dLog) :
          dLog[i].msg.conds = <<"F", "F">> /\ dLog[i].invoked = <<DDefault>>

\* a predicate raised TypeError for message i of the log
PredicateRaised(i) == dLog[i].src = "predicate" /\ dLog[i].exc = "TypeError"

\* the predicates of the first k pairs
FirstPredicates(k) == [j \in 1..k |-> DPairs[j][1]]

\* the handlers of the pairs before pair k whose predicate held for message i
HeldBefore(i, k) ==
    [j \in 1..Cardinality({n \in 1..(k - 1) : dLog[i].msg.conds[n] = "T"}) |->
        DPairs[CHOOSE n \in 1..(k - 1) : dLog[i].msg.conds[n] = "T"][2]]

\* the loop went on after the raise
LoopWentOn(i) == i = Len(dLog) => dPc # "crashed"

\* C39 as stated: when a predicate of a Dispatcher raises TypeError for a
\* message, the message is skipped (no handler is invoked for it and nothing
\* is forwarded): the predicates after it are not evaluated, the default
\* handler is not invoked, and the loop goes on with the next message.
C39_PredicateTypeErrorSkips ==
    \A i \in 1..Len(dLog) :
        PredicateRaised(i) =>
            /\ dLog[i].invoked = <<>>
            /\ dLog[i].nputs = 0
            /\ dLog[i].msg.conds[Len(dLog[i].tested)] = "TypeError"
            /\ dLog[i].tested = FirstPredicates(Len(dLog[i].tested))
            /\ LoopWentOn(i)

\* C39 amended: when a predicate raises TypeError, the predicates after it
\* are not evaluated, no handler is invoked from then on, the default
\* handler included, and the loop goes on with the next message
\* (messenger.py:317-342); the message is skipped when no earlier predicate
\* held, and when an earlier predicate held its handler has already run and
\* its result has been forwarded.
C39_PredicateTypeErrorEndsDispatch ==
    \A i \in 1..Len(dLog) :
        /\ PredicateRaised(i) =>
              /\ dLog[i].msg.conds[Len(dLog[i].tested)] = "TypeError"
              /\ dLog[i].tested = FirstPredicates(Len(dLog[i].tested))
              /\ dLog[i].invoked = HeldBefore(i, Len(dLog[i].tested))
              /\ dLog[i].nputs = IF dLog[i].invoked # <<>> /\ dLog[i].msg.out = "msg"
                                 THEN 1 ELSE 0
              /\ LoopWentOn(i)
        /\ RaisesBeforeMatch(dLog[i].msg.conds) =>
              /\ PredicateRaised(i)
              /\ dLog[i].invoked = <<>>
              /\ dLog[i].nputs = 0

\* the first predicate raised for a message the second one holds for, the
\* second predicate was not evaluated, no handler ran, and the next message
\* was dispatched to a handler
C39_Witness ==
    /\ Len(dLog) >= 2
    /\ dLog[1].msg.conds = <<"TypeError", "T">>
    /\ dLog[1].tested = <<"p1">>
    /\ dLog[1].invoked = <<>>
    /\ dLog[2].invoked # <<>>

\* the messages the loop dequeued while the stop flag was already set
DequeuedAfterForceStop == { i \in 1..Len(dLog) : dLog[i].stopSet }

\* C11 as stated: once force_stop has set the stop flag the loop dequeues no
\* further message.
C11_ForceStopDequeuesNothing == DequeuedAfterForceStop = {}

\* C11: once force_stop has set the stop flag the loop dequeues at most one
\* further message (that of the get it had already entered) and leaves at
\* its next test of the flag without draining: the thread eventually ends,
\* whatever is left in the input queue.
C11_ForceStopEndsLoop ==
    /\ [](Cardinality(DequeuedAfterForceStop) <= 1)
    /\ [](dStopEvent /\ dPc = "check" => [](dPc # "get"))
    /\ (dStopEvent ~> dPc \in {"exited", "crashed"})

\* C11 witness: force_stop was called, the thread left the loop on the flag
\* (no STOP was ever put) and a message is still in the input queue
C11_Witness ==
    /\ dStopEvent
    /\ dPc = "exited"
    /\ dStopper = "idle"
    /\ dIn # <<>>

\* C10: graceful stop.  Once stop_loop has returned (and force_stop was never
\* called), the consumer thread has terminated, every message put before
\* STOP has been dequeued and dispatched, and no message put after STOP has
\* been.
C10_GracefulStopDrains ==
    (dStopper = "returned" /\ ~dStopEvent)
        => /\ dPc \in {"exited", "crashed"}
           /\ DLogIds = 1..dStopAt

(***************************************************************************)
(* SpecTimer: callers of DeviceAccessor.switch_power_change, the           *)
(* _TimerManager and the threading.Timer threads it starts.  Time is not   *)
(* measured: a started timer may expire at any moment.                     *)
(*                                                                         *)
(* A thread is a record.  Callers are the threads 1..MaxCalls; a timer     *)
(* gets the next number when create_timer instantiates it.                 *)
(*   kind       "caller" or "timer"                                        *)
(*   pc         caller: idle, loop, ct_acquire, ct_start, ct_register,     *)
(*              done; timer: waiting, firing, then the caller's positions  *)
(*              while its task runs, finished                              *)
(*   names      the device names switch_power_change still has to handle   *)
(*   protocol, model, power_on, countdown, on_time, off_time               *)
(*              the arguments of the running call                          *)
(*   fn, device the timer's function and device (timers only)              *)
(*   finished   Timer.finished, the event that cancel() sets               *)
(*   req        the arguments of the create_timer call in progress         *)
(*   prev       _previous_timer                                            *)
(*   newT       _timer                                                     *)
(*   ran, superseded, origin, call      history                            *)
(***************************************************************************)
TDevices == {"plug1", "plug2"}

\* the protocol and model the callers pass for each device
DeviceProtocol(d) == IF d = "plug1" THEN "Z2M" ELSE "TASMOTA"
DeviceModel(d) == IF d = "plug1" THEN "SN_SMART_PLUG" ELSE "SHELLY_PLUGS"

NoReq == [none |-> TRUE]

CallerIdle ==
    [kind |-> "caller", pc |-> "idle", names |-> <<>>, protocol |-> "", model |-> "",
     power_on |-> FALSE, countdown |-> 0, on_time |-> 0, off_time |-> 0,
     fn |-> "", device |-> "", finished |-> FALSE, req |-> NoReq, prev |-> 0,
     newT |-> 0, ran |-> FALSE, superseded |-> FALSE, origin |-> 0, call |-> NoReq]

\* threading.Timer(countdown, task, kwargs=...) as create_timer builds it
NewTimer(req, origin) ==
    [kind |-> "timer", pc |-> "waiting", names |-> <<>>, protocol |-> req.protocol,
     model |-> req.model, power_on |-> req.power_on, countdown |-> req.countdown,
     on_time |-> req.on_time, off_time |-> req.off_time,
     fn |-> req.fn, device |-> req.device, finished |-> FALSE, req |-> NoReq,
     prev |-> 0, newT |-> 0, ran |-> FALSE, superseded |-> FALSE, origin |-> origin,
     call |-> NoReq]

InitTimer ==
    /\ IdleCalls
    /\ IdleClient
    /\ IdleBounded
    /\ IdleDispatcher
    /\ IdlePipeline
    /\ IdleScrutinizer
    /\ tmLock = 0
    /\ tmRegistry = [d \in TDevices |-> 0]
    /\ th = [c \in 1..MaxCalls |-> CallerIdle]
    /\ published = <<>>

\* a timer that was started, not cancelled, and has not fired
Pending(t) == th[t].kind = "timer" /\ th[t].pc = "waiting" /\ ~th[t].finished

IsTimerPending(d) == tmRegistry[d] # 0 /\ Pending(tmRegistry[d])

\* central.py:493-503  is_timer_active:
\*     return device_name in timer_manager._timer_registry
IsTimerActive(d) == tmRegistry[d] # 0

LockAlwaysFree == TRUE

\* the lock of `with self._timer_registry_lock` can be taken
LockFree == tmLock = 0

CancelNothing(threads, p) == threads

\* threading.Timer.cancel: self.finished.set()
Cancel(threads, p) == [threads EXCEPT ![p] = [@ EXCEPT !.finished = TRUE]]

\* the publishes of thread t with their history: the thread, the call it
\* stems from, and the timer that was pending for the device when it
\* published (0 for none)
Tagged(pubs, t) ==
    [i \in 1..Len(pubs) |->
        [topic |-> pubs[i].topic, json |-> pubs[i].json, text |-> pubs[i].text,
         by |-> t, origin |-> th[t].origin,
         pending |-> IF IsTimerPending(pubs[i].topic[2])
                     THEN tmRegistry[pubs[i].topic[2]] ELSE 0]]

\* a caller thread calls switch_power_change(device_names, protocol, model,
\* power_on, countdown, on_time, off_time)
TCall(c) ==
    /\ th[c].kind = "caller"
    /\ th[c].pc = "idle"
    /\ \E d \in TDevices, po \in BOOLEAN, cd \in {0, 5}, on \in {0, 2}, off \in {0, 2} :
         LET a == [names |-> <<d>>, protocol |-> DeviceProtocol(d),
                   model |-> DeviceModel(d), power_on |-> po, countdown |-> cd,
                   on_time |-> on, off_time |-> off]
         IN th' = [th EXCEPT ![c] =
                      [@ EXCEPT !.pc = "loop", !.names = a.names,
                                !.protocol = a.protocol, !.model = a.model,
                                !.power_on = po, !.countdown = cd, !.on_time = on,
                                !.off_time = off, !.origin = c, !.call = a]]
    /\ UNCHANGED <<tmLock, tmRegistry, published>>
    /\ UNCHANGED nonTimerVars

\* a follow-up that runs switch_power_change again, with the times of the call
FollowUpCycling(f, d, powerOn, countdown) ==
    [device |-> d, countdown |-> countdown, fn |-> "switch_power_change",
     protocol |-> f.protocol, model |-> f.model, power_on |-> powerOn,
     on_time |-> f.on_time, off_time |-> f.off_time]

\* a power change without follow-up that cancelled the timer of the device
NoFollowUpCancelling(threads, t, d) ==
    IF tmRegistry[d] = 0
    THEN [threads EXCEPT ![t] = [@ EXCEPT !.names = Tail(@)]]
    ELSE [[threads EXCEPT ![tmRegistry[d]] = [@ EXCEPT !.finished = TRUE]]
             EXCEPT ![t] = [@ EXCEPT !.names = Tail(@)]]

\* central.py:689-699: neither `power_on and on_time > 0` nor
\* `not power_on and off_time > 0`: _do_switch_power_change returns after
\* the publish, without a call of the timer manager
NoFollowUp(threads, t, d) ==
    [threads EXCEPT ![t] = [@ EXCEPT !.names = Tail(@)]]

FollowUpSamePower(f, d, powerOn, countdown) ==
    [device |-> d, countdown |-> countdown, fn |-> "_do_switch_power",
     protocol |-> f.protocol, model |-> f.model, power_on |-> ~powerOn,
     on_time |-> 0, off_time |-> 0]

\* the request of the follow-up timer (_manage_timer_helper)
FollowUp(f, d, powerOn, countdown) ==
    [device |-> d, countdown |-> countdown, fn |-> "_do_switch_power",
     protocol |-> f.protocol, model |-> f.model, power_on |-> powerOn,
     on_time |-> 0, off_time |-> 0]

ReinvocationWithDefaultTimes(f, d) ==
    [device |-> d, countdown |-> f.countdown, fn |-> "switch_power_change",
     protocol |-> f.protocol, model |-> f.model, power_on |-> f.power_on,
     on_time |-> 0, off_time |-> 0]

\* central.py:673-688: the request of the countdown timer, whose task is
\* switch_power_change with the arguments of the running call (TimerRun sets
\* the countdown of the re-invocation to 0)
Reinvocation(f, d) ==
    [device |-> d, countdown |-> f.countdown, fn |-> "switch_power_change",
     protocol |-> f.protocol, model |-> f.model, power_on |-> f.power_on,
     on_time |-> f.on_time, off_time |-> f.off_time]

\* central.py:738-747 and 673-699: the next device name of the loop of
\* switch_power_change, and _do_switch_power_change for it up to its call
\* of create_timer, or to its end when it creates no timer
TLoop(t) ==
    /\ th[t].pc = "loop"
    /\ LET f == th[t] IN
       IF f.names = <<>>
       THEN /\ th' = [th EXCEPT ![t] =
                        IF f.kind = "timer"
                        THEN [@ EXCEPT !.pc = "finished", !.finished = TRUE]
                        ELSE [@ EXCEPT !.pc = "done"]]
            /\ UNCHANGED published
       ELSE LET d == Head(f.names) IN
            IF f.countdown # 0
            THEN /\ th' = [th EXCEPT ![t] =
                             [@ EXCEPT !.pc = "ct_acquire",
                                       !.req = Reinvocation(f, d)]]
                 /\ UNCHANGED published
            ELSE /\ published' = published \o
                        Tagged(DoSwitchPowerPublishes(d, f.protocol, f.model, f.power_on), t)
                 /\ th' = IF f.power_on /\ f.on_time > 0
                          THEN [th EXCEPT ![t] =
                                  [@ EXCEPT !.pc = "ct_acquire",
                                            !.req = FollowUp(f, d, FALSE, f.on_time)]]
                          ELSE IF ~f.power_on /\ f.off_time > 0
                          THEN [th EXCEPT ![t] =
                                  [@ EXCEPT !.pc = "ct_acquire",
                                            !.req = FollowUp(f, d, TRUE, f.off_time)]]
                          ELSE NoFollowUp(th, t, d)
    /\ UNCHANGED <<tmLock, tmRegistry>>
    /\ UNCHANGED nonTimerVars

\* central.py:475-476  with self._timer_registry_lock:
\*                         _previous_timer = self._timer_registry.get(device_name)
CTAcquire(t) ==
    /\ th[t].pc = "ct_acquire"
    /\ LockFree
    /\ tmLock' = t
    /\ th' = [th EXCEPT ![t] = [@ EXCEPT !.pc = "ct_start",
                                         !.prev = tmRegistry[th[t].req.device]]]
    /\ UNCHANGED <<tmRegistry, published>>
    /\ UNCHANGED nonTimerVars

\* central.py:477-481  _previous_timer.cancel(); _timer = threading.Timer(...);
\*                     _timer.start()
CTStart(t) ==
    /\ th[t].pc = "ct_start"
    /\ LET p == th[t].prev
           n == Len(th) + 1
           cancelled == IF p = 0 THEN th
                        ELSE [Cancel(th, p) EXCEPT
                                 ![p] = [@ EXCEPT !.superseded = @ \/ Pending(p)]]
       IN th' = Append([cancelled EXCEPT ![t] = [@ EXCEPT !.pc = "ct_register",
                                                          !.newT = n]],
                       NewTimer(th[t].req, th[t].origin))
    /\ UNCHANGED <<tmLock, tmRegistry, published>>
    /\ UNCHANGED nonTimerVars

\* central.py:482  self._timer_registry[device_name] = _timer, the lock
\* released, create_timer and _do_switch_power_change return
CTRegister(t) ==
    /\ th[t].pc = "ct_register"
    /\ tmRegistry' = [tmRegistry EXCEPT ![th[t].req.device] = th[t].newT]
    /\ tmLock' = IF tmLock = t THEN 0 ELSE tmLock
    /\ th' = [th EXCEPT ![t] = [@ EXCEPT !.pc = "loop", !.names = Tail(@),
                                         !.req = NoReq, !.prev = 0, !.newT = 0]]
    /\ UNCHANGED published
    /\ UNCHANGED nonTimerVars

\* threading.Timer.run: finished.wait(interval) is over;
\*                      if not self.finished.is_set(): ...
TimerExpire(t) ==
    /\ th[t].kind = "timer"
    /\ th[t].pc = "waiting"
    /\ th' = [th EXCEPT ![t] =
                IF th[t].finished THEN [@ EXCEPT !.pc = "finished"]
                ELSE [@ EXCEPT !.pc = "firing", !.ran = TRUE]]
    /\ UNCHANGED <<tmLock, tmRegistry, published>>
    /\ UNCHANGED nonTimerVars

\* a Timer.run that looked at the finished event again before the call
TimerRunUnlessCancelled(t) ==
    /\ th[t].kind = "timer"
    /\ th[t].pc = "firing"
    /\ IF th[t].finished
       THEN /\ th' = [th EXCEPT ![t] = [@ EXCEPT !.pc = "finished"]]
            /\ UNCHANGED published
       ELSE IF th[t].fn = "_do_switch_power"
       THEN /\ published' = published \o
                   Tagged(DoSwitchPowerPublishes(th[t].device, th[t].protocol,
                                                 th[t].model, th[t].power_on), t)
            /\ th' = [th EXCEPT ![t] = [@ EXCEPT !.pc = "finished", !.finished = TRUE]]
       ELSE /\ th' = [th EXCEPT ![t] = [@ EXCEPT !.pc = "loop", !.names = <<th[t].device>>,
                                                 !.countdown = 0]]
            /\ UNCHANGED published
    /\ UNCHANGED <<tmLock, tmRegistry>>
    /\ UNCHANGED nonTimerVars

\* threading.Timer.run: self.function(*self.args, **self.kwargs), the task
\* create_timer was given: _do_switch_power (central.py:622-636) or
\* switch_power_change with countdown 0 (central.py:674-688)
TimerRun(t) ==
    /\ th[t].kind = "timer"
    /\ th[t].pc = "firing"
    /\ IF th[t].fn = "_do_switch_power"
       THEN /\ published' = published \o
                   Tagged(DoSwitchPowerPublishes(th[t].device, th[t].protocol,
                                                 th[t].model, th[t].power_on), t)
            /\ th' = [th EXCEPT ![t] = [@ EXCEPT !.pc = "finished", !.finished = TRUE]]
       ELSE /\ th' = [th EXCEPT ![t] = [@ EXCEPT !.pc = "loop", !.names = <<th[t].device>>,
                                                 !.countdown = 0]]
            /\ UNCHANGED published
    /\ UNCHANGED <<tmLock, tmRegistry>>
    /\ UNCHANGED nonTimerVars

NextTimer ==
    \/ \E t \in DOMAIN th : TCall(t)
    \/ \E t \in DOMAIN th : TLoop(t)
    \/ \E t \in DOMAIN th : CTAcquire(t)
    \/ \E t \in DOMAIN th : CTStart(t)
    \/ \E t \in DOMAIN th : CTRegister(t)
    \/ \E t \in DOMAIN th : TimerExpire(t)
    \/ \E t \in DOMAIN th : TimerRun(t)

SpecTimer ==
    InitTimer /\ [][NextTimer]_vars

(***************************************************************************)
(* Claims about the timers and the power changes.                          *)
(***************************************************************************)
TimersOf(d) == {t \in DOMAIN th : th[t].kind = "timer" /\ th[t].device = d}

MostRecentTimer(d) ==
    IF TimersOf(d) = {} THEN 0
    ELSE CHOOSE t \in TimersOf(d) : \A u \in TimersOf(d) : u <= t

\* C4: under any interleaving of create_timer calls for a device, issued by
\* callers and by firing timer tasks, at most one timer of the device is
\* pending (started, not cancelled, not fired) in every state, and whenever
\* no thread is inside the critical section of create_timer the registry
\* entry of the device is the most recently created timer of the device.
C4_OnePendingTimerPerDevice ==
    \A d \in TDevices :
        /\ Cardinality({t \in TimersOf(d) : Pending(t)}) <= 1
        /\ tmLock = 0 => tmRegistry[d] = MostRecentTimer(d)

\* a timer of the device was cancelled while it was pending, by a
\* create_timer that a firing timer task issued, and the timer that replaced
\* it is the pending one the registry holds
C4_Witness ==
    \E d \in TDevices : \E t1, t2 \in TimersOf(d) :
        /\ t1 < t2
        /\ th[t1].superseded
        /\ Pending(t2)
        /\ th[t2].fn = "_do_switch_power"
        /\ th[th[t2].origin].call.countdown # 0
        /\ tmRegistry[d] = t2
        /\ tmLock = 0

CallersFor(d) ==
    {c \in 1..MaxCalls : th[c].call # NoReq /\ th[c].call.names = <<d>>}

PublishedFor(d) == SelectSeq(published, LAMBDA p : p.topic[2] = d)

\* the timer of call c1 was replaced, while pending, by the timer of call c2
\* (both with countdown # 0, the only calls for the device)
Replaced(d, c1, c2) ==
    /\ c1 # c2
    /\ CallersFor(d) = {c1, c2}
    /\ th[c1].call.countdown # 0
    /\ th[c2].call.countdown # 0
    /\ \E t \in TimersOf(d) :
          /\ th[t].origin = c1
          /\ th[t].fn = "switch_power_change"
          /\ th[t].superseded

\* the publishes made by the task of a countdown timer
Deferred(d) ==
    SelectSeq(PublishedFor(d), LAMBDA p : th[p.by].fn = "switch_power_change")

\* C5: when switch_power_change is called twice for a device with a
\* countdown other than 0 and the second call replaces the timer of the
\* first before it fires, the first call never publishes: every publish for
\* the device stems from the second call, and at most one of them is the
\* deferred publish of a countdown timer.
C5_OnlySecondCallPublishes ==
    \A d \in TDevices : \A c1, c2 \in 1..MaxCalls :
        Replaced(d, c1, c2) =>
            /\ \A i \in 1..Len(PublishedFor(d)) : PublishedFor(d)[i].origin = c2
            /\ Len(Deferred(d)) <= 1

\* the first call's timer was replaced and the second call's deferred
\* publish has happened
C5_Witness ==
    \E d \in TDevices : \E c1, c2 \in 1..MaxCalls :
        /\ Replaced(d, c1, c2)
        /\ Len(Deferred(d)) = 1
        /\ Deferred(d)[1].origin = c2

PulseCall(c) ==
    /\ th[c].call # NoReq
    /\ th[c].call.protocol = "Z2M"
    /\ th[c].call.model = "SN_SMART_PLUG"
    /\ th[c].call.power_on
    /\ th[c].call.countdown = 0
    /\ th[c].call.on_time > 0
    /\ th[c].call.off_time = 0

\* the publishes for a device: topic, payload and the kind of the publisher
Observed(d) ==
    [i \in 1..Len(PublishedFor(d)) |->
        [topic |-> PublishedFor(d)[i].topic, json |-> PublishedFor(d)[i].json,
         who |-> th[PublishedFor(d)[i].by].kind]]

PulseExpected(d) ==
    << [topic |-> <<"zigbee2mqtt", d, "set">>, json |-> << <<"state", JStr("ON")>> >>,
        who |-> "caller"],
       [topic |-> <<"zigbee2mqtt", d, "set">>, json |-> << <<"state", JStr("OFF")>> >>,
        who |-> "timer"] >>

IsPrefix(s, t) == Len(s) <= Len(t) /\ \A i \in 1..Len(s) : s[i] = t[i]

\* every thread the call started has come to its end
Quiescent(c) ==
    \A t \in DOMAIN th : th[t].origin = c => th[t].pc \in {"done", "finished"}

\* C6: one call switch_power_change(device, Z2M, SN_SMART_PLUG, power_on,
\* countdown 0, on_time > 0, off_time 0), the only call for the device,
\* publishes to zigbee2mqtt/{device}/set {"state":"ON"} during the call, then
\* {"state":"OFF"} from the on_time timer, and nothing else: the publishes
\* for the device are a prefix of these two in every state, and are exactly
\* these two once the call and its timer have ended.
C6_PulseTwoPublishes ==
    \A c \in 1..MaxCalls :
        (PulseCall(c) /\ CallersFor(Head(th[c].call.names)) = {c}) =>
            LET d == Head(th[c].call.names) IN
            /\ IsPrefix(Observed(d), PulseExpected(d))
            /\ Quiescent(c) => Observed(d) = PulseExpected(d)

\* the pulse call and its timer have ended
C6_Witness ==
    \E c \in 1..MaxCalls :
        /\ PulseCall(c)
        /\ CallersFor(Head(th[c].call.names)) = {c}
        /\ Quiescent(c)
        /\ Len(Observed(Head(th[c].call.names))) = 2

\* the create_timer call that started timer t has stored it in the registry
Registered(t) ==
    ~\E c \in DOMAIN th : th[c].pc = "ct_register" /\ th[c].newT = t

PastWait(t) == th[t].kind = "timer" /\ th[t].pc = "firing"

\* the step starts the task of timer t
TaskStarts(t) ==
    IF th[t].fn = "_do_switch_power"
    THEN /\ Len(published') > Len(published)
         /\ published'[Len(published')].by = t
    ELSE th'[t].pc = "loop"

\* C32: cancellation by replacement is best-effort.  central.py:475-482:
\* create_timer cancels the previous timer by setting its finished event;
\* a timer whose wait has elapsed has already tested that event, so the
\* next step of such a timer starts its task whether or not it was
\* cancelled in between, and the tasks of both the replaced and the
\* replacing timer of a device can execute.
C32_CancelAfterWaitIsIneffective ==
    [][\A t \in DOMAIN th :
          (PastWait(t) /\ th'[t].pc # "firing") => TaskStarts(t)]_vars

\* two timers of a device, the older one cancelled by the create_timer that
\* made the younger one, and the older one's task published after the
\* younger one's
C32_Witness ==
    \E d \in TDevices : \E t1, t2 \in TimersOf(d) :
        /\ t1 < t2
        /\ th[t1].finished
        /\ ~th[t1].superseded
        /\ \E i, j \in 1..Len(published) :
              /\ i < j
              /\ published[i].by = t2
              /\ published[j].by = t1

\* the publishes made by call c and by the timers it led to
PublishedBy(c) == SelectSeq(published, LAMBDA p : p.origin = c)

\* the timers call c led to
TimersBy(c) == {t \in DOMAIN th : th[t].kind = "timer" /\ th[t].origin = c}

\* the threads a run can have: the callers, and at most two timers for each
MaxThreads == 3 * MaxCalls

\* a step of thread t other than the start of a call
ThreadStep(t) ==
    /\ t \in DOMAIN th
    /\ \/ TLoop(t)
       \/ CTAcquire(t)
       \/ CTStart(t)
       \/ CTRegister(t)
       \/ TimerExpire(t)
       \/ TimerRun(t)

\* one call of switch_power_change and what follows from it
NextSingleCall ==
    \/ TCall(1)
    \/ \E t \in DOMAIN th : TLoop(t)
    \/ \E t \in DOMAIN th : CTAcquire(t)
    \/ \E t \in DOMAIN th : CTStart(t)
    \/ \E t \in DOMAIN th : CTRegister(t)
    \/ \E t \in DOMAIN th : TimerExpire(t)
    \/ \E t \in DOMAIN th : TimerRun(t)

SpecSingleCall ==
    InitTimer /\ [][NextSingleCall]_vars

\* every thread that can take a step eventually takes one, and every timer's
\* wait eventually ends
SpecSingleCallFair ==
    SpecSingleCall /\ \A t \in 1..MaxThreads : WF_vars(ThreadStep(t))

\* a timer whose task is a plain switch: _do_switch_power calls no
\* create_timer
PlainSwitch(t) ==
    /\ th[t].fn = "_do_switch_power"
    /\ th[t].pc \in {"waiting", "firing", "finished"}

\* C36: a single call of switch_power_change for one device causes at most
\* two power publishes for that device, whatever power_on, countdown,
\* on_time and off_time are.  central.py:659-699, 622-636: the call leads to
\* at most two timers, at most one of them a countdown timer that runs
\* switch_power_change with countdown 0; the follow-up timer is a plain
\* switch that never calls create_timer; every publish of the call goes to
\* the call's device; and the call and its timers come to their end.
AtMostTwoPublishes ==
    \A c \in 1..MaxCalls :
        /\ Len(PublishedBy(c)) <= 2
        /\ Cardinality(TimersBy(c)) <= 2
        /\ Cardinality({t \in TimersBy(c) : th[t].fn = "switch_power_change"}) <= 1
        /\ \A t \in TimersBy(c) : th[t].fn # "switch_power_change" => PlainSwitch(t)
        /\ \A i \in 1..Len(PublishedBy(c)) :
              PublishedBy(c)[i].topic[2] = Head(th[c].call.names)

C36_AtMostTwoPublishes ==
    /\ []AtMostTwoPublishes
    /\ \A c \in 1..MaxCalls : (th[c].call # NoReq) ~> Quiescent(c)

\* a call with a countdown, with on_time and off_time both above 0, has come
\* to its end after two publishes
C36_Witness ==
    \E c \in 1..MaxCalls :
        /\ th[c].call # NoReq
        /\ th[c].call.countdown # 0
        /\ th[c].call.on_time > 0
        /\ th[c].call.off_time > 0
        /\ Quiescent(c)
        /\ Len(PublishedBy(c)) = 2

\* thread t is about to change the power of the next device of its call
\* without countdown and without follow-up for the requested direction
PlainChange(t) ==
    /\ th[t].pc = "loop"
    /\ th[t].names # <<>>
    /\ th[t].countdown = 0
    /\ ~(th[t].power_on /\ th[t].on_time > 0)
    /\ ~(~th[t].power_on /\ th[t].off_time > 0)

\* C37: a power change that schedules no follow-up (countdown = 0 and, for
\* the requested direction, on_time or off_time equal to 0) leaves the
\* TimerManager unchanged (central.py:689-699, 443-487): the step publishes,
\* and the registry, its lock and every other thread, the pending timers
\* included, stay as they were, so a timer still pending for the device
\* from an earlier call later fires its power change.
C37_PlainChangeKeepsTimers ==
    [][\A t \in DOMAIN th :
          (PlainChange(t) /\ th'[t].names # th[t].names) =>
              /\ tmRegistry' = tmRegistry
              /\ tmLock' = tmLock
              /\ DOMAIN th' = DOMAIN th
              /\ \A u \in DOMAIN th \ {t} : th'[u] = th[u]
              /\ Len(published') > Len(published)]_vars

\* a caller's power change without countdown and follow-up was published
\* while a timer of another call was pending for the device, and that timer
\* published its power change afterwards
C37_Witness ==
    \E i, j \in 1..Len(published) :
        /\ i < j
        /\ th[published[i].by].kind = "caller"
        /\ th[published[i].by].call.countdown = 0
        /\ ~(th[published[i].by].call.power_on /\ th[published[i].by].call.on_time > 0)
        /\ ~(~th[published[i].by].call.power_on /\ th[published[i].by].call.off_time > 0)
        /\ published[j].by = published[i].pending
        /\ published[j].topic[2] = published[i].topic[2]
        /\ published[j].origin # published[i].origin

\* a call with a countdown, the only call for its device
CountdownCall(c) ==
    /\ th[c].call # NoReq
    /\ th[c].call.countdown # 0
    /\ CallersFor(Head(th[c].call.names)) = {c}

\* the timers that the call itself scheduled
ScheduledBy(c) ==
    {t \in DOMAIN th : th[t].kind = "timer" /\ th[t].origin = c
                           /\ th[t].fn = "switch_power_change"}

\* C21: a call of switch_power_change with countdown # 0 publishes nothing
\* during the call: the calling thread creates exactly one timer per device,
\* whose task is switch_power_change for that device with the power_on,
\* on_time and off_time of the call and which runs with countdown 0, and
\* the first publish for the device is made by that timer's thread.
C21_CountdownOnlySchedules ==
    \A c \in 1..MaxCalls :
        CountdownCall(c) =>
            LET d == Head(th[c].call.names) IN
            /\ \A i \in 1..Len(published) : published[i].by # c
            /\ Cardinality(ScheduledBy(c)) <= 1
            /\ th[c].pc = "done" => Cardinality(ScheduledBy(c)) = 1
            /\ \A t \in ScheduledBy(c) :
                  /\ th[t].device = d
                  /\ th[t].protocol = th[c].call.protocol
                  /\ th[t].model = th[c].call.model
                  /\ th[t].power_on = th[c].call.power_on
                  /\ th[t].on_time = th[c].call.on_time
                  /\ th[t].off_time = th[c].call.off_time
                  /\ th[t].pc \in {"loop", "ct_acquire", "ct_start", "ct_register"}
                        => th[t].countdown = 0
            /\ PublishedFor(d) # <<>> =>
                  /\ PublishedFor(d)[1].by \in ScheduledBy(c)
                  /\ th[PublishedFor(d)[1].by].ran
                  /\ LET p == PublishedFor(d)[1] IN
                     [topic |-> p.topic, json |-> p.json, text |-> p.text] =
                        DoSwitchPowerPublishes(d, th[c].call.protocol, th[c].call.model,
                                               th[c].call.power_on)[1]

\* a call with a countdown and an on_time has returned, its timer has fired
\* and made the first publish for the device, and the follow-up timer the
\* re-invocation started has made the second
C21_Witness ==
    \E c \in 1..MaxCalls :
        /\ CountdownCall(c)
        /\ th[c].call.power_on
        /\ th[c].call.on_time > 0
        /\ th[c].pc = "done"
        /\ Len(PublishedFor(Head(th[c].call.names))) = 2
        /\ PublishedFor(Head(th[c].call.names))[1].by \in ScheduledBy(c)

(***************************************************************************)
(* SpecPipeline: the pipeline that get_refined_data_queue builds.  The     *)
(* Scrutinizer puts Messages on the raw queue; three Dispatchers move      *)
(* them from queue to queue.  The queues are unbounded and the             *)
(* Dispatchers are never stopped, so a step of a Dispatcher is one         *)
(* iteration of _run that found a message.                                 *)
(***************************************************************************)
Item(data, tag) == [data |-> data, tag |-> tag]

\* the Message the Scrutinizer builds (_process_message); id is set by the put
Message(protocol, device_name, message_type, raw_item) ==
    [protocol |-> protocol, model |-> NoModel, device_name |-> device_name,
     message_type |-> message_type, raw_item |-> raw_item, id |-> 0,
     refined |-> NoRefined]

Z2MEntry(name, type, model) ==
    JDict([friendly_name |-> JStr(name), ieee_address |-> JStr("0x" \o name),
           type |-> JStr(type), definition |-> JDict([model |-> JStr(model)])])

\* zigbee2mqtt/bridge/devices
Z2MDisco(entries) == Message("Z2M", "bridge", "DISCO", Item(JList(entries), NoTag))

\* tasmota/discovery/{id}/config
TasmotaDisco(config) == Message("TASMOTA", "A1B2C3", "DISCO", Item(JDict(config), "config"))

DiscoInputs ==
    { Z2MDisco(<< Z2MEntry("plug1", "EndDevice", "S26R2ZB"),
                  JDict([friendly_name |-> JStr("coord"), type |-> JStr("Coordinator"),
                         definition |-> JNull]) >>),
      Z2MDisco(<< Z2MEntry("trv1", "EndDevice", "SRTS-A01"),
                  Z2MEntry("plug1", "Router", "ZBMINI-L") >>),
      Z2MDisco(<< JDict([friendly_name |-> JStr("plug1"), ieee_address |-> JStr("0x1"),
                         type |-> JStr("EndDevice"), definition |-> JNull]) >>),
      Message("Z2M", "bridge", "DISCO", Item(JDict([error |-> JStr("busy")]), NoTag)),
      TasmotaDisco([t |-> JStr("shelly1"), hn |-> JStr("shelly1-host"),
                    md |-> JStr("Shelly Plug S")]),
      TasmotaDisco([t |-> JStr("shelly1"), hn |-> JStr("shelly1-host")]),
      \* devices whose model has no variant: a definition without a model
      \* (NONE) and a Tasmota bridge (SN_ZBBRIDGE)
      Z2MDisco(<< JDict([friendly_name |-> JStr("plug1"), ieee_address |-> JStr("0x1"),
                         type |-> JStr("EndDevice"),
                         definition |-> JDict([vendor |-> JStr("SONOFF")])]) >>),
      TasmotaDisco([t |-> JStr("shelly1"), hn |-> JStr("shelly1-host"),
                    md |-> JStr("Sonoff ZbBridge")]) }

AvailInputs ==
    { Message("Z2M", "plug1", "AVAIL", Item(JDict([state |-> JStr("online")]), NoTag)),
      Message("Z2M", "plug1", "AVAIL", Item(JStr("offline"), NoTag)),
      Message("Z2M", "plug1", "AVAIL", Item(JDict([state |-> JStr("unknown")]), NoTag)),
      Message("TASMOTA", "shelly1", "AVAIL", Item(JStr("Online"), NoTag)) }

StateInputs ==
    { Message("Z2M", "plug1", "STATE", Item(JDict([state |-> JStr("ON")]), NoTag)),
      Message("Z2M", "trv1", "STATE",
              Item(JDict([occupied_heating_setpoint |-> JNum(40)]), NoTag)),
      Message("Z2M", "trv1", "STATE",
              Item(JDict([occupied_heating_setpoint |-> JNum(20)]), NoTag)),
      Message("TASMOTA", "shelly1", "STATE", Item(JDict([POWER |-> JStr("ON")]), "STATE")),
      Message("TASMOTA", "shelly1", "STATE",
              Item(JDict([ENERGY |-> JDict([Power |-> JNum(7)])]), "SENSOR")),
      Message("TASMOTA", "shelly1", "STATE", Item(JDict([POWER |-> JStr("ON")]), "RESULT")) }

\* the Messages the Scrutinizer puts in this model
RawInputs == DiscoInputs \cup AvailInputs \cup StateInputs

Stage1 == [name |-> "pipeline-discovery",
           pairs |-> << <<"is_type_discovery", "Discoverer.process">> >>,
           default |-> "Processor.pass_through"]
Stage2 == [name |-> "pipeline-layer1",
           pairs |-> << <<"not is_type_discovery", "ModelResolver.process">> >>,
           default |-> "_get_device_state"]
Stage3 == [name |-> "normalizer",
           pairs |-> << <<"is_type_availability", "AvailabilityNormalizer.process">>,
                        <<"is_type_state", "StateNormalizer.process">> >>,
           default |-> "Processor.pass_through"]

InitPipeline ==
    /\ IdleCalls
    /\ IdleClient
    /\ IdleBounded
    /\ IdleDispatcher
    /\ IdleTimer
    /\ IdleScrutinizer
    /\ pRaw = <<>>
    /\ pLayer1 = <<>>
    /\ pLayer2 = <<>>
    /\ pRefined = <<>>
    /\ pDirectory = <<>>
    /\ pStage = [k \in 1..3 |-> "running"]
    /\ pPublished = <<>>
    /\ pPutLog = <<>>

\* Scrutinizer._process_message: self._output_queue.put(_incoming, ...)
PRawPut ==
    /\ Len(pPutLog) < MaxMsgs
    /\ \E m \in RawInputs :
         /\ pRaw' = Append(pRaw, [m EXCEPT !.id = Len(pPutLog) + 1])
         /\ pPutLog' = Append(pPutLog, [m EXCEPT !.id = Len(pPutLog) + 1])
    /\ UNCHANGED <<pLayer1, pLayer2, pRefined, pDirectory, pStage, pPublished>>
    /\ UNCHANGED nonPipeVars

\* what one iteration of _run leaves outside the queues
StageEffect(k, st) ==
    /\ pDirectory' = st.env.dir
    /\ pPublished' = pPublished \o st.env.pubs
    /\ pStage' = [pStage EXCEPT ![k] = IF AfterRun(st) = "crashed" THEN "crashed" ELSE @]

\* a Stage-1 that takes the newest message of the raw queue
PDiscoveryNewestFirst ==
    /\ pStage[1] = "running"
    /\ pRaw # <<>>
    /\ \E st \in {RunMessage(Stage1.pairs, Stage1.default, TRUE, pRaw[Len(pRaw)],
                             [dir |-> pDirectory, pubs |-> <<>>])} :
         /\ pRaw' = SubSeq(pRaw, 1, Len(pRaw) - 1)
         /\ pLayer1' = pLayer1 \o st.puts
         /\ StageEffect(1, st)
    /\ UNCHANGED <<pLayer2, pRefined, pPutLog>>
    /\ UNCHANGED nonPipeVars

\* central.py:820-829  Dispatcher "pipeline-discovery"
PDiscovery ==
    /\ pStage[1] = "running"
    /\ pRaw # <<>>
    /\ \E st \in {RunMessage(Stage1.pairs, Stage1.default, TRUE, Head(pRaw),
                             [dir |-> pDirectory, pubs |-> <<>>])} :
         /\ pRaw' = Tail(pRaw)
         /\ pLayer1' = pLayer1 \o st.puts
         /\ StageEffect(1, st)
    /\ UNCHANGED <<pLayer2, pRefined, pPutLog>>
    /\ UNCHANGED nonPipeVars

\* central.py:832-844  Dispatcher "pipeline-layer1"
PLayer1 ==
    /\ pStage[2] = "running"
    /\ pLayer1 # <<>>
    /\ \E st \in {RunMessage(Stage2.pairs, Stage2.default, TRUE, Head(pLayer1),
                             [dir |-> pDirectory, pubs |-> <<>>])} :
         /\ pLayer1' = Tail(pLayer1)
         /\ pLayer2' = pLayer2 \o st.puts
         /\ StageEffect(2, st)
    /\ UNCHANGED <<pRaw, pRefined, pPutLog>>
    /\ UNCHANGED nonPipeVars

\* a normalizer whose output queue is last in, first out
PNormalizerLifo ==
    /\ pStage[3] = "running"
    /\ pLayer2 # <<>>
    /\ \E st \in {RunMessage(Stage3.pairs, Stage3.default, TRUE, Head(pLayer2),
                             [dir |-> pDirectory, pubs |-> <<>>])} :
         /\ pLayer2' = Tail(pLayer2)
         /\ pRefined' = st.puts \o pRefined
         /\ StageEffect(3, st)
    /\ UNCHANGED <<pRaw, pLayer1, pPutLog>>
    /\ UNCHANGED nonPipeVars

\* central.py:845-861  Dispatcher "normalizer"
PNormalizer ==
    /\ pStage[3] = "running"
    /\ pLayer2 # <<>>
    /\ \E st \in {RunMessage(Stage3.pairs, Stage3.default, TRUE, Head(pLayer2),
                             [dir |-> pDirectory, pubs |-> <<>>])} :
         /\ pLayer2' = Tail(pLayer2)
         /\ pRefined' = pRefined \o st.puts
         /\ StageEffect(3, st)
    /\ UNCHANGED <<pRaw, pLayer1, pPutLog>>
    /\ UNCHANGED nonPipeVars

NextPipeline ==
    \/ PRawPut
    \/ PDiscovery
    \/ PLayer1
    \/ PNormalizer

SpecPipeline ==
    InitPipeline /\ [][NextPipeline]_vars

\* the Dispatcher threads are scheduled fairly
SpecPipelineFair ==
    /\ InitPipeline
    /\ [][NextPipeline]_vars
    /\ WF_vars(PDiscovery)
    /\ WF_vars(PLayer1)
    /\ WF_vars(PNormalizer)

(***************************************************************************)
(* Claims about the pipeline.                                              *)
(***************************************************************************)
MessageTypes == {"DISCO", "AVAIL", "STATE"}

SensorMessage(m) ==
    m.protocol = "TASMOTA" /\ m.message_type = "STATE" /\ m.raw_item.tag = "SENSOR"

Handled == Len(pPutLog) - Len(pRaw)

Z2MIncluded(m) ==
    IF m.raw_item.data.j = "list"
    THEN SelectSeq(m.raw_item.data.l, LAMBDA e : DictGet(e, "type") \in Z2MDeviceTypes)
    ELSE <<>>

\* discovery message m includes device d
Includes(m, d) ==
    /\ m.message_type = "DISCO"
    /\ IF m.protocol = "Z2M"
       THEN \E i \in 1..Len(Z2MIncluded(m)) :
               DictGet(Z2MIncluded(m)[i], "friendly_name") = JStr(d)
       ELSE /\ m.raw_item.data.j = "dict"
            /\ {"t", "hn", "md"} \subseteq DOMAIN m.raw_item.data.d
            /\ m.raw_item.data.d["t"] = JStr(d)

\* the model tag that discovery message m gives device d
ModelTag(m, d) ==
    IF m.protocol = "Z2M"
    THEN LET e == Z2MIncluded(m)[CHOOSE i \in 1..Len(Z2MIncluded(m)) :
                     /\ DictGet(Z2MIncluded(m)[i], "friendly_name") = JStr(d)
                     /\ \A k \in 1..Len(Z2MIncluded(m)) :
                           DictGet(Z2MIncluded(m)[k], "friendly_name") = JStr(d) => k <= i]
         IN IF DictGet(e, "definition").j = "dict"
            THEN DictGet(DictGet(e, "definition"), "model")
            ELSE JNull
    ELSE m.raw_item.data.d["md"]

PDevices == {"plug1", "trv1", "shelly1"}

Including(d) == {i \in 1..Handled : Includes(pPutLog[i], d)}

\* C7: after the Discoverer has processed any sequence of discovery
\* messages, every device that one of them included is in the
\* DeviceDirectory, with the model looked up from the model tag of the most
\* recent of the messages that included it.
C7_DirectoryHasDiscovered ==
    \A d \in PDevices :
        Including(d) # {} =>
            /\ d \in DOMAIN pDirectory
            /\ pDirectory[d].model =
                  ModelFromStr(ModelTag(pPutLog[CHOOSE i \in Including(d) :
                                                   \A k \in Including(d) : k <= i], d))

\* the model ModelResolver gives message m with the directory as it is
ResolvedModel(m) ==
    IF m.device_name \in DOMAIN pDirectory
    THEN pDirectory[m.device_name].model
    ELSE "UNKNOWN"

\* C8: whenever the Dispatcher of ModelResolver dequeues a message that is
\* not a DISCO message, ModelResolver forwards it (the message is appended
\* to the next queue, never dropped) with a model that is not null: the
\* directory's model of its device_name at that moment, UNKNOWN when the
\* device is not in the directory.
C8_ModelResolverForwards ==
    [][ (/\ pLayer1 # <<>>
         /\ pLayer1' = Tail(pLayer1)
         /\ Head(pLayer1).message_type # "DISCO")
        => /\ pLayer2' = Append(pLayer2, [Head(pLayer1) EXCEPT !.model =
                                              ResolvedModel(Head(pLayer1))])
           /\ ResolvedModel(Head(pLayer1)) # NoModel ]_vars

\* ModelResolver has forwarded a message of a device absent from the
\* directory with UNKNOWN and a message of a discovered device with the
\* directory's model
C8_Witness ==
    \E i, j \in 1..Len(pLayer2) :
        /\ pLayer2[i].message_type # "DISCO"
        /\ pLayer2[i].model = "UNKNOWN"
        /\ pLayer2[j].message_type # "DISCO"
        /\ pLayer2[j].device_name \in DOMAIN pDirectory
        /\ pLayer2[j].model = pDirectory[pLayer2[j].device_name].model
        /\ pLayer2[j].model = "SN_SMART_PLUG"

AvailToken(m) ==
    IF m.protocol = "Z2M" /\ m.raw_item.data.j = "dict"
    THEN DictGet(m.raw_item.data, "state")
    ELSE m.raw_item.data

KnownToken(m) ==
    IF m.protocol = "Z2M" THEN AvailToken(m) \in {JStr("online"), JStr("offline")}
    ELSE AvailToken(m) \in {JStr("Online"), JStr("Offline")}

WellShapedDisco(m) ==
    IF m.protocol = "Z2M"
    THEN /\ m.raw_item.data.j = "list"
         /\ \A i \in 1..Len(Z2MIncluded(m)) : Z2MEntryExc(Z2MIncluded(m)[i]) = NoExc
    ELSE /\ m.raw_item.data.j = "dict"
         /\ {"t", "hn", "md"} \subseteq DOMAIN m.raw_item.data.d
         /\ DeviceValid(m.raw_item.data.d["t"], m.raw_item.data.d["hn"])

\* a well-formed availability or discovery message
WellFormed(m) ==
    \/ m.message_type = "AVAIL" /\ KnownToken(m)
    \/ m.message_type = "DISCO" /\ WellShapedDisco(m)

\* a message that makes a stage raise DecodingException: an unknown
\* availability token or a badly shaped discovery payload
DecodingOffender(m) ==
    \/ m.message_type = "AVAIL" /\ ~KnownToken(m)
    \/ /\ m.message_type = "DISCO"
       /\ IF m.protocol = "Z2M" THEN m.raw_item.data.j # "list"
          ELSE ~(/\ m.raw_item.data.j = "dict"
                 /\ {"t", "hn", "md"} \subseteq DOMAIN m.raw_item.data.d)

\* message j is well-formed and was put after a message that raises
\* DecodingException, all messages before it being of these two sorts
PutAfterOffender(j) ==
    /\ Len(pPutLog) >= j
    /\ WellFormed(pPutLog[j])
    /\ \E i \in 1..(j - 1) : DecodingOffender(pPutLog[i])
    /\ \A i \in 1..(j - 1) : DecodingOffender(pPutLog[i]) \/ WellFormed(pPutLog[i])

OnRefined(j) == \E k \in 1..Len(pRefined) : pRefined[k].id = j

\* C3: after a raw message that makes a stage raise DecodingException, only
\* that message is lost: a well-formed availability or discovery message put
\* on the raw queue after it eventually is on the refined queue, the stage
\* threads being scheduled fairly.
C3_PipelineContinues ==
    \A j \in 2..MaxMsgs : PutAfterOffender(j) ~> OnRefined(j)

\* the messages in flight, the furthest in the pipeline first
InFlight == pRefined \o pLayer2 \o pLayer1 \o pRaw

\* what the Scrutinizer put, which no stage changes
SameRaw(m, put) ==
    /\ m.protocol = put.protocol
    /\ m.device_name = put.device_name
    /\ m.message_type = put.message_type
    /\ m.raw_item = put.raw_item

\* C12: order is preserved through the pipeline.  Every message on a queue
\* is one the Scrutinizer put (id is its rank in the puts), each queue holds
\* its messages in the order of the puts, and a message further down the
\* pipeline was put before every message behind it: the refined queue is a
\* subsequence of what the Scrutinizer put, for one device in particular.
C12_OrderPreserved ==
    /\ \A i \in 1..Len(InFlight) :
          /\ InFlight[i].id \in 1..Len(pPutLog)
          /\ SameRaw(InFlight[i], pPutLog[InFlight[i].id])
    /\ \A i, j \in 1..Len(InFlight) : i < j => InFlight[i].id < InFlight[j].id

\* C12 witness: the refined queue holds the first and the third message put,
\* both of one device, and the second one was dropped on the way
C12_Witness ==
    /\ Len(pRefined) = 2
    /\ pRefined[1].id = 1
    /\ pRefined[2].id = 3
    /\ pRefined[1].device_name = pRefined[2].device_name
    /\ pRaw = <<>> /\ pLayer1 = <<>> /\ pLayer2 = <<>>
\* the models the model-to-variant table has a variant for
ModelsWithVariant ==
    {"SN_AIRSENSOR", "SN_MINI", "SN_MINI_L2", "SN_SMART_PLUG", "SHELLY_PLUGS",
     "SHELLY_UNI", "SN_MOTION", "SN_BUTTON", "SRTS_A01", "NEO_ALARM"}

StatePuts(protocol, tag) ==
    { i \in 1..Len(pPutLog) : /\ pPutLog[i].message_type = "STATE"
                              /\ pPutLog[i].protocol = protocol
                              /\ pPutLog[i].raw_item.tag = tag }

MaxDeliveries == 3
QueueMaxSize == 1

\* _InfoTopicRegistry.device_name_offset, in topic levels: the levels of
\* info_topic_base (central.py:204-243)
DeviceNameOffset(protocol, message_type) ==
    IF protocol = "TASMOTA" /\ message_type = "DISCO" THEN 2 ELSE 1

\* _InfoTopicManager.resolve_wildcards: topic[_offset:].split("/")[position]
ResolveWildcards(protocol, message_type, topic, position) ==
    topic[DeviceNameOffset(protocol, message_type) + 1 + position]

\* the payloads of the model, and what json.loads makes of each
Payloads == {"", "online", "Online", "5", "[]", "{\"state\": \"ON\"}"}
JSONDecodeError == [j |-> "JSONDecodeError"]

JsonLoads(payload) ==
    CASE payload = "5" -> JNum(5)
      [] payload = "[]" -> JList(<<>>)
      [] payload = "{\"state\": \"ON\"}" -> JDict([state |-> JStr("ON")])
      [] OTHER -> JSONDecodeError

\* messenger.Item(data=...): data is a Dict, a str or a List[Dict]
ItemValid(data) ==
    \/ data.j \in {"dict", "str"}
    \/ data.j = "list" /\ \A i \in 1..Len(data.l) : data.l[i].j = "dict"

\* Scrutinizer._json_to_item: the Item, None, or the JSONDecodeError it lets
\* through
JsonToItem(protocol, message_type, topic, payload) ==
    LET loaded == JsonLoads(payload)
        tag == IF protocol = "TASMOTA"
               THEN ResolveWildcards(protocol, message_type, topic, 1)
               ELSE NoTag
    IN IF loaded = JSONDecodeError THEN [k |-> "JSONDecodeError"]
       ELSE IF ItemValid(loaded) THEN [k |-> "item", item |-> Item(loaded, tag)]
       ELSE [k |-> "None"]

\* a callback that wraps every payload json.loads rejects
ProcessMessageWrapAll(protocol, message_type, topic, payload) ==
    LET device_name == ResolveWildcards(protocol, message_type, topic, 0)
        r == JsonToItem(protocol, message_type, topic, payload)
    IN CASE r.k = "JSONDecodeError" ->
              [k |-> "msg",
               msg |-> Message(protocol, device_name, message_type,
                               Item(JStr(payload), NoTag))]
         [] r.k = "None" -> [k |-> "raise", exc |-> "ValidationError"]
         [] r.k = "item" ->
              [k |-> "msg",
               msg |-> Message(protocol, device_name, message_type, r.item)]

\* Scrutinizer._process_message up to the put: the Message to put, a plain
\* return, or the exception that leaves the callback
ProcessMessage(protocol, message_type, topic, payload) ==
    LET device_name == ResolveWildcards(protocol, message_type, topic, 0)
        r == JsonToItem(protocol, message_type, topic, payload)
    IN CASE r.k = "JSONDecodeError" ->
              IF protocol = "TASMOTA" /\ message_type = "STATE"
              THEN [k |-> "return"]
              ELSE [k |-> "msg",
                    msg |-> Message(protocol, device_name, message_type,
                                    Item(JStr(payload), NoTag))]
         [] r.k = "None" -> [k |-> "raise", exc |-> "ValidationError"]
         [] r.k = "item" ->
              [k |-> "msg",
               msg |-> Message(protocol, device_name, message_type, r.item)]

\* central.py:204-243  the topic filter (its levels) of each callback:
\* info_topic_base + info_topic_extension
Subscriptions ==
    { [protocol |-> "Z2M", message_type |-> "AVAIL",
       filter |-> <<"zigbee2mqtt", "+", "availability">>],
      [protocol |-> "TASMOTA", message_type |-> "AVAIL",
       filter |-> <<"tele", "+", "LWT">>],
      [protocol |-> "Z2M", message_type |-> "STATE",
       filter |-> <<"zigbee2mqtt", "+">>],
      [protocol |-> "TASMOTA", message_type |-> "STATE",
       filter |-> <<"tele", "+", "+">>],
      [protocol |-> "Z2M", message_type |-> "DISCO",
       filter |-> <<"zigbee2mqtt", "bridge", "devices">>],
      [protocol |-> "TASMOTA", message_type |-> "DISCO",
       filter |-> <<"tasmota", "discovery", "+", "config">>] }

\* the topics MQTT messages arrive on in this model
Topics ==
    { <<"zigbee2mqtt", "plug1", "availability">>,
      <<"tele", "shelly1", "LWT">>,
      <<"zigbee2mqtt", "plug1">>,
      <<"tele", "shelly1", "STATE">>,
      <<"zigbee2mqtt", "bridge", "devices">>,
      <<"tasmota", "discovery", "A1B2C3", "config">> }

\* a topic matches a filter without multi-level wildcard: the same number
\* of levels, each level equal or "+" in the filter
TopicMatches(filter, topic) ==
    /\ Len(filter) = Len(topic)
    /\ \A i \in 1..Len(filter) : filter[i] = "+" \/ filter[i] = topic[i]

Callback(sub) == [protocol |-> sub.protocol, message_type |-> sub.message_type]

\* a client that called the callback of one matching filter only, the one
\* with the fewest wildcards
CallbacksForMostSpecific(topic) ==
    LET matching == {sub \in Subscriptions : TopicMatches(sub.filter, topic)}
        wild(sub) == Cardinality({i \in 1..Len(sub.filter) : sub.filter[i] = "+"})
    IN {Callback(sub) : sub \in {x \in matching : \A y \in matching : wild(x) <= wild(y)}}

\* central.py:273-297  message_callback_add: the client calls the callback
\* of every filter the topic of a message matches
CallbacksFor(topic) ==
    {Callback(sub) : sub \in {x \in Subscriptions : TopicMatches(x.filter, topic)}}

\* the MQTT messages the client can receive next: a new one with every
\* callback its topic matches still to call (n numbers the message by its
\* first entry in the log), or the one whose callbacks are not all called
Jobs ==
    IF "todo" \in DOMAIN sCb
    THEN {[topic |-> sCb.topic, payload |-> sCb.payload, todo |-> sCb.todo, n |-> sCb.n]}
    ELSE IF Len(sLog) >= MaxDeliveries THEN {}
    ELSE {[topic |-> t, payload |-> p, todo |-> CallbacksFor(t), n |-> Len(sLog) + 1] :
             t \in Topics, p \in Payloads}

\* the MQTT thread after callback c of the message has returned
AfterCallback(job, c) ==
    IF job.todo \ {c} = {} THEN [pc |-> "idle"]
    ELSE [pc |-> "idle", topic |-> job.topic, payload |-> job.payload,
          todo |-> job.todo \ {c}, n |-> job.n]

InitScrutinizer ==
    /\ IdleCalls
    /\ IdleClient
    /\ IdleBounded
    /\ IdleDispatcher
    /\ IdleTimer
    /\ IdlePipeline
    /\ sQueue = <<>>
    /\ sCb = [pc |-> "idle"]
    /\ sLog = <<>>

\* how a call of the callback ended
Ended(d, payload, outcome, exc, waited) ==
    [protocol |-> d.protocol, message_type |-> d.message_type, topic |-> d.topic,
     payload |-> payload, outcome |-> outcome, exc |-> exc, timedOut |-> waited,
     mqtt |-> d.n]

\* central.py:329-361  the MQTT thread calls a callback of the message; an
\* exception that leaves the callback leaves the client's loop over the
\* callbacks too
SCallback ==
    /\ sCb.pc = "idle"
    /\ \E job \in Jobs : \E c \in job.todo :
         \E d \in {[protocol |-> c.protocol, message_type |-> c.message_type,
                     topic |-> job.topic, n |-> job.n]} :
         \E r \in {ProcessMessage(d.protocol, d.message_type, d.topic, job.payload)} :
           CASE r.k = "msg" ->
                  /\ sCb' = [pc |-> "put", d |-> d, payload |-> job.payload,
                             msg |-> r.msg, rest |-> AfterCallback(job, c)]
                  /\ sLog' = sLog
             [] r.k = "return" ->
                  /\ sCb' = AfterCallback(job, c)
                  /\ sLog' = Append(sLog, Ended(d, job.payload, "dropped", NoExc, FALSE))
             [] r.k = "raise" ->
                  /\ sCb' = [pc |-> "idle"]
                  /\ sLog' = Append(sLog, Ended(d, job.payload, "raised", r.exc, FALSE))
    /\ UNCHANGED sQueue
    /\ UNCHANGED nonScrVars

\* central.py:369  put(_incoming, block=True, timeout=...) finds room
SPut ==
    /\ sCb.pc = "put"
    /\ Len(sQueue) < QueueMaxSize
    /\ sQueue' = Append(sQueue, sCb.msg)
    /\ sLog' = Append(sLog, Ended(sCb.d, sCb.payload, "put", NoExc, FALSE))
    /\ sCb' = sCb.rest
    /\ UNCHANGED nonScrVars

\* central.py:369  the queue stayed full for the whole timeout: put raises
\* queue.Full, which nothing in the callback catches
SPutTimeout ==
    /\ sCb.pc = "put"
    /\ Len(sQueue) = QueueMaxSize
    /\ sLog' = Append(sLog, Ended(sCb.d, sCb.payload, "raised", "Full", TRUE))
    /\ sCb' = [pc |-> "idle"]
    /\ UNCHANGED sQueue
    /\ UNCHANGED nonScrVars

\* the consumer of the raw queue takes a message
SGet ==
    /\ sQueue # <<>>
    /\ sQueue' = Tail(sQueue)
    /\ UNCHANGED <<sCb, sLog>>
    /\ UNCHANGED nonScrVars

NextScrutinizer ==
    \/ SCallback
    \/ SPut
    \/ SPutTimeout
    \/ SGet

SpecScrutinizer ==
    InitScrutinizer /\ [][NextScrutinizer]_vars

(***************************************************************************)
(* Claims about the Scrutinizer (SpecScrutinizer).                         *)
(***************************************************************************)
\* C14: an MQTT message with an empty payload is dropped by the Scrutinizer:
\* for every (protocol, message type) its callback returns without putting
\* a Message on the raw queue.
C14_EmptyPayloadDropped ==
    /\ \A i \in 1..Len(sLog) : sLog[i].payload = "" => sLog[i].outcome = "dropped"
    /\ sCb.pc = "put" => sCb.payload # ""

\* C15: when the raw queue is bounded and stays full for the whole put
\* timeout, the callback drops the message and returns normally, raising no
\* exception into the MQTT client.
C15_PutTimeoutReturnsNormally ==
    \A i \in 1..Len(sLog) : sLog[i].timedOut => sLog[i].exc = NoExc

\* the payloads of the model that json.loads rejects
NotJson == {"", "online"}

TasmotaState(d) == d.protocol = "TASMOTA" /\ d.message_type = "STATE"

\* C26: for a payload that is not valid JSON the Scrutinizer puts nothing
\* on the raw queue when the message is classified (TASMOTA, STATE): the
\* callback returns; for every other (protocol, message type) it puts
\* exactly one Message, of that protocol and type, whose raw_item has the
\* raw string as data and a null tag (a put on a queue that has room: the
\* raw queue of the pipeline is unbounded).
C26_JsonFailureHandling ==
    /\ [](\A i \in 1..Len(sLog) :
            sLog[i].payload \in NotJson =>
                IF TasmotaState(sLog[i])
                THEN sLog[i].outcome = "dropped" /\ sLog[i].exc = NoExc
                ELSE sLog[i].outcome = "put" \/ sLog[i].timedOut)
    /\ []((sCb.pc = "put" /\ sCb.payload \in NotJson) =>
            /\ ~TasmotaState(sCb.d)
            /\ sCb.msg.raw_item = [data |-> JStr(sCb.payload), tag |-> NoTag]
            /\ sCb.msg.protocol = sCb.d.protocol
            /\ sCb.msg.message_type = sCb.d.message_type)
    /\ [][Len(sQueue') > Len(sQueue) =>
            /\ sCb.pc = "put"
            /\ sQueue' = Append(sQueue, sCb.msg)
            /\ sCb'.pc = "idle"]_vars

\* a payload that is not JSON was dropped for (TASMOTA, STATE), and one was
\* put for (TASMOTA, AVAIL) and is on the raw queue as a bare string
C26_Witness ==
    /\ \E i \in 1..Len(sLog) :
          /\ sLog[i].payload = "online"
          /\ TasmotaState(sLog[i])
          /\ sLog[i].outcome = "dropped"
    /\ \E i \in 1..Len(sLog) :
          /\ sLog[i].payload = "online"
          /\ sLog[i].protocol = "TASMOTA"
          /\ sLog[i].message_type = "AVAIL"
          /\ sLog[i].outcome = "put"
    /\ sQueue # <<>>
    /\ sQueue[Len(sQueue)].raw_item = [data |-> JStr("online"), tag |-> NoTag]
    /\ sQueue[Len(sQueue)].message_type = "AVAIL"

LWT(d) == <<"tele", d, "LWT">>

\* the log entries of MQTT message n
EntriesOf(n) == {i \in 1..Len(sLog) : sLog[i].mqtt = n}

\* every callback of MQTT message n has been called and has returned
Delivered(n) ==
    /\ EntriesOf(n) # {}
    /\ ~(sCb.pc = "put" /\ sCb.d.n = n)
    /\ ~("todo" \in DOMAIN sCb /\ sCb.n = n)
    /\ \A i \in EntriesOf(n) : sLog[i].exc = NoExc

\* C35: one MQTT message on tele/{device}/LWT matches both the TASMOTA
\* AVAIL pattern tele/+/LWT and the TASMOTA STATE pattern tele/+/+, so both
\* callbacks run; with payload Online or Offline (text that is not JSON)
\* exactly one Message reaches the raw queue, of type AVAIL, and none of
\* type STATE (central.py:273-297, 204-243, 348-369; a put on a queue that
\* has room).
C35_LwtMatchesTwoCallbacks ==
    /\ CallbacksFor(LWT("shelly1")) =
          {[protocol |-> "TASMOTA", message_type |-> "AVAIL"],
           [protocol |-> "TASMOTA", message_type |-> "STATE"]}
    /\ \A i \in 1..Len(sLog) :
          (sLog[i].topic = LWT("shelly1") /\ sLog[i].payload \in {"Online", "online"}) =>
              /\ sLog[i].message_type = "STATE" => sLog[i].outcome = "dropped"
              /\ sLog[i].message_type = "AVAIL" =>
                    sLog[i].outcome = "put" \/ sLog[i].timedOut
              /\ Delivered(sLog[i].mqtt) =>
                    /\ {sLog[k].message_type : k \in EntriesOf(sLog[i].mqtt)}
                          = {"AVAIL", "STATE"}
                    /\ Cardinality(EntriesOf(sLog[i].mqtt)) = 2
                    /\ Cardinality({k \in EntriesOf(sLog[i].mqtt) :
                                       sLog[k].outcome = "put"}) = 1
    /\ (sCb.pc = "put" /\ sCb.d.topic = LWT("shelly1")
                        /\ sCb.payload \in {"Online", "online"}) =>
          /\ sCb.msg.message_type = "AVAIL"
          /\ sCb.msg.protocol = "TASMOTA"
          /\ sCb.msg.device_name = "shelly1"

\* both callbacks of one message tele/shelly1/LWT with payload Online have
\* run, the STATE callback first, and the raw queue holds its one Message
C35_Witness ==
    \E i \in 1..Len(sLog) :
        /\ i + 1 <= Len(sLog)
        /\ sLog[i].topic = LWT("shelly1")
        /\ sLog[i].payload = "Online"
        /\ sLog[i].message_type = "STATE"
        /\ sLog[i].outcome = "dropped"
        /\ sLog[i + 1].mqtt = sLog[i].mqtt
        /\ sLog[i + 1].message_type = "AVAIL"
        /\ sLog[i + 1].outcome = "put"
        /\ Delivered(sLog[i].mqtt)
        /\ sQueue # <<>>
        /\ sQueue[Len(sQueue)].message_type = "AVAIL"
        /\ sQueue[Len(sQueue)].raw_item = [data |-> JStr("Online"), tag |-> NoTag]

\* the discovery messages that include device d and were put on the raw
\* queue before message m
DiscoveredBefore(m, d) ==
    {i \in 1..(m.id - 1) : pPutLog[i].message_type = "DISCO" /\ Includes(pPutLog[i], d)}

\* the models the discovery messages put so far give device d
DiscoveredModels(d) ==
    {ModelFromStr(ModelTag(pPutLog[i], d)) :
        i \in {k \in 1..Len(pPutLog) :
                  pPutLog[k].message_type = "DISCO" /\ Includes(pPutLog[k], d)}}

\* the Stage-2 Dispatcher takes a STATE or AVAIL message from its input queue
Stage2TakesData ==
    /\ pLayer1 # <<>>
    /\ pLayer1' = Tail(pLayer1)
    /\ Head(pLayer1).message_type # "DISCO"

Stage1Discovers(d) ==
    /\ pRaw # <<>>
    /\ pRaw' = Tail(pRaw)
    /\ Head(pRaw).message_type = "DISCO"
    /\ Includes(Head(pRaw), d)

\* C40: the DeviceDirectory only grows or overwrites (processor.py:244-251,
\* 326-358): no step of the pipeline removes a name, an entry changes only
\* when Stage-1 handles a discovery message that includes its name, so a
\* device that a later Z2M discovery list no longer contains keeps its
\* entry and its model, and its later messages are still resolved to that
\* model.
C40_DirectoryOnlyGrows ==
    [][/\ DOMAIN pDirectory \subseteq DOMAIN pDirectory'
       /\ \A d \in DOMAIN pDirectory :
             pDirectory'[d] # pDirectory[d] => Stage1Discovers(d)
       /\ (Stage2TakesData /\ Head(pLayer1).device_name \in DOMAIN pDirectory)
             => pLayer2' = Append(pLayer2,
                                  [Head(pLayer1) EXCEPT !.model =
                                      pDirectory[Head(pLayer1).device_name].model])]_vars

\* trv1 was discovered, a later Z2M discovery list without trv1 was handled,
\* and a STATE message of trv1 put after both left Stage-2 with the model
\* of the first discovery
C40_Witness ==
    /\ Len(pPutLog) = 3
    /\ pPutLog[1].message_type = "DISCO"
    /\ Includes(pPutLog[1], "trv1")
    /\ pPutLog[2].message_type = "DISCO"
    /\ pPutLog[2].protocol = "Z2M"
    /\ pPutLog[2].raw_item.data.j = "list"
    /\ ~Includes(pPutLog[2], "trv1")
    /\ \E k \in 1..Len(pLayer2) :
          /\ pLayer2[k].id = 3
          /\ pLayer2[k].message_type = "STATE"
          /\ pLayer2[k].device_name = "trv1"
          /\ pLayer2[k].model = ModelFromStr(ModelTag(pPutLog[1], "trv1"))
          /\ pLayer2[k].model = "SRTS_A01"

\* the Stage-2 Dispatcher takes a DISCO message from its input queue
Stage2TakesDisco ==
    /\ pLayer1 # <<>>
    /\ pLayer1' = Tail(pLayer1)
    /\ Head(pLayer1).message_type = "DISCO"

RECURSIVE Concat(_)
Concat(seqs) == IF seqs = <<>> THEN <<>> ELSE Head(seqs) \o Concat(Tail(seqs))

\* what one call trigger_get_state(name, protocol, model) for each name of
\* the list publishes, with the protocol and model of the directory
GetsFor(names) ==
    Concat([i \in 1..Len(names) |->
               GetStatePublishes(names[i], pDirectory[names[i]].protocol,
                                 pDirectory[names[i]].model)])

\* the state retrievals published for device d
GetsOf(d) == SelectSeq(pPublished, LAMBDA p : p.topic[2] = d)

\* C33: for each DISCO message that reaches Stage-2, trigger_get_state is
\* called exactly once for every name in msg.refined.device_names, with the
\* protocol and model the DeviceDirectory holds at that time, and the DISCO
\* message is then forwarded unchanged to the next queue; this happens for
\* every discovery message, also for devices that were already in the
\* directory before it (central.py:898-909, 831-843).
C33_GetStateForEveryName ==
    [][Stage2TakesDisco =>
          /\ Head(pLayer1).refined.cls = "Registry"
          /\ \A i \in 1..Len(Head(pLayer1).refined.device_names) :
                Head(pLayer1).refined.device_names[i] \in DOMAIN pDirectory
          /\ pPublished' = pPublished \o GetsFor(Head(pLayer1).refined.device_names)
          /\ pLayer2' = Append(pLayer2, Head(pLayer1))
          /\ pStage'[2] = "running"]_vars

\* two discovery messages that include plug1 have passed Stage-2, and the
\* state of plug1 was asked for after each of them
C33_Witness ==
    /\ Cardinality({i \in 1..Len(pPutLog) :
                       /\ pPutLog[i].message_type = "DISCO"
                       /\ \E k \in 1..Len(pLayer2 \o pRefined) :
                             /\ (pLayer2 \o pRefined)[k].id = i
                             /\ (pLayer2 \o pRefined)[k].refined.cls = "Registry"
                             /\ \E n \in 1..Len((pLayer2 \o pRefined)[k].refined.device_names) :
                                   (pLayer2 \o pRefined)[k].refined.device_names[n] = "plug1"}) = 2
    /\ Len(GetsOf("plug1")) = 2

(***************************************************************************)
(* A client that calls functions of the library one after the other.      *)
(***************************************************************************)
MaxFnCalls == 2

NoEnv == [dir |-> <<>>, pubs |-> <<>>]

\* raw data of availability messages: bare tokens, mappings with and
\* without the key state, wrongly typed values
AvailTokens == {"online", "offline", "Online", "Offline", "unknown"}

AvailData ==
    { JStr(t) : t \in AvailTokens }
    \cup { JDict([state |-> JStr(t)]) : t \in AvailTokens }
    \cup { JDict([availability |-> JStr("online")]),
           JDict([state |-> JNull]),
           JDict([state |-> JDict([state |-> JStr("online")])]),
           JList(<<>>),
           JList(<<JDict([state |-> JStr("online")])>>) }

AvailCalls ==
    { [Message(p, "plug1", "AVAIL", Item(d, NoTag)) EXCEPT !.id = 1] :
        p \in {"Z2M", "TASMOTA"}, d \in AvailData }

InitCalls ==
    /\ IdleDispatcher
    /\ IdleTimer
    /\ IdlePipeline
    /\ IdleScrutinizer
    /\ IdleClient
    /\ IdleBounded
    /\ fLog = <<>>

\* AvailabilityNormalizer().process(message)
CallAvailabilityNormalizer ==
    /\ Len(fLog) < MaxFnCalls
    /\ \E m \in AvailCalls :
         fLog' = Append(fLog, [fn |-> "AvailabilityNormalizer.process", arg |-> m,
                               res |-> AvailabilityNormalizerProcess(m, NoEnv)])
    /\ UNCHANGED nonCallVars
\* dev.Model
Models ==
    {"MIFLORA", "NEO_ALARM", "RING_CAMERA", "SHELLY_PLUGS", "SHELLY_UNI", "SRTS_A01",
     "TUYA_SOIL", "SN_AIRSENSOR", "SN_BUTTON", "SN_MOTION", "SN_MINI", "SN_MINI_L2",
     "SN_SMART_PLUG", "SN_ZBBRIDGE", "NONE", "UNKNOWN"}

\* encoder.encode(model, state) for the canonical switch states, and whether
\* encoder.check_compliance accepts what it gives
CallEncode ==
    /\ Len(fLog) < MaxFnCalls
    /\ \E model \in Models, state \in {SWITCH_ON, SWITCH_OFF} :
         fLog' = Append(fLog, [fn |-> "encode",
                               arg |-> [model |-> model, state |-> state],
                               res |-> Encode(model, state),
                               compliant |->
                                  /\ EncoderRegistry(model) # NoEncoder
                                  /\ CheckCompliance(EncoderRegistry(model),
                                                     Encode(model, state))])
    /\ UNCHANGED nonCallVars

\* the DeviceDirectory the accessor calls are made with
AccessorDirectory ==
    [n \in {"plug1", "plug2"} |->
        IF n = "plug1"
        THEN Device(JStr("plug1"), "Z2M", JStr("0x1"), "SN_SMART_PLUG")
        ELSE Device(JStr("plug2"), "TASMOTA", JStr("plug2-host"), "SHELLY_PLUGS")]

\* device_names.split(","): one or two names, in or out of the directory
NameLists ==
    LET N == {"plug1", "plug2", "ghost"} IN
    { <<a>> : a \in N } \cup { <<a, b>> : a \in N, b \in N }

PublishEvents(pubs) == [i \in 1..Len(pubs) |-> [ev |-> "publish", pub |-> pubs[i]]]

CreateTimerEvent(req) == << [ev |-> "create_timer", req |-> req] >>

\* DeviceAccessor._do_switch_power_change for one device: what it publishes
\* and the timers it asks timer_manager.create_timer for, in order
DoSwitchPowerChange(d, protocol, model, po, cd, on, off) ==
    LET f == [protocol |-> protocol, model |-> model] IN
    IF cd # 0
    THEN CreateTimerEvent([device |-> d, countdown |-> cd, fn |-> "switch_power_change",
                           protocol |-> protocol, model |-> model, power_on |-> po,
                           on_time |-> on, off_time |-> off])
    ELSE PublishEvents(DoSwitchPowerPublishes(d, protocol, model, po))
         \o (IF po /\ on > 0 THEN CreateTimerEvent(FollowUp(f, d, FALSE, on))
             ELSE IF ~po /\ off > 0 THEN CreateTimerEvent(FollowUp(f, d, TRUE, off))
             ELSE <<>>)

\* DeviceAccessor.switch_power_change_helper: the loop over the names; a
\* name that is not in the directory logs a warning and returns
RECURSIVE SwitchPowerChangeHelper(_, _, _, _, _, _)
SwitchPowerChangeHelper(names, dir, po, cd, on, off) ==
    IF names = <<>> THEN <<>>
    ELSE IF Head(names) \notin DOMAIN dir
    THEN << [ev |-> "warning", device |-> Head(names)] >>
    ELSE DoSwitchPowerChange(Head(names), dir[Head(names)].protocol,
                             dir[Head(names)].model, po, cd, on, off)
         \o SwitchPowerChangeHelper(Tail(names), dir, po, cd, on, off)

\* accessor.switch_power_change_helper(device_names, power_on, countdown,
\* on_time, off_time)
CallSwitchPowerChangeHelper ==
    /\ Len(fLog) < MaxFnCalls
    /\ \E names \in NameLists, po \in BOOLEAN, cd \in {0, 5}, on \in {0, 2},
          off \in {0, 2} :
         fLog' = Append(fLog, [fn |-> "switch_power_change_helper",
                               arg |-> [names |-> names, power_on |-> po,
                                        countdown |-> cd, on_time |-> on,
                                        off_time |-> off],
                               res |-> SwitchPowerChangeHelper(names, AccessorDirectory,
                                                               po, cd, on, off)])
    /\ UNCHANGED nonCallVars

\* accessor.trigger_get_state(device_name, protocol, model)
CallTriggerGetState ==
    /\ Len(fLog) < MaxFnCalls
    /\ \E d \in {"plug1", "plug2"}, protocol \in {"Z2M", "TASMOTA"}, model \in Models :
         fLog' = Append(fLog, [fn |-> "trigger_get_state",
                               arg |-> [device |-> d, protocol |-> protocol,
                                        model |-> model],
                               res |-> GetStatePublishes(d, protocol, model)])
    /\ UNCHANGED nonCallVars

\* entries of a zigbee2mqtt/bridge/devices payload: two supported devices, the
\* coordinator, a device of an unlisted model, a device without definition
Z2MEntries ==
    { Z2MEntry("plug1", "EndDevice", "S26R2ZB"),
      Z2MEntry("trv1", "Router", "SRTS-A01"),
      Z2MEntry("lamp1", "EndDevice", "TS011F"),
      JDict([friendly_name |-> JStr("coord"), ieee_address |-> JStr("0x0"),
             type |-> JStr("Coordinator"), definition |-> JNull]),
      JDict([friendly_name |-> JStr("plug1"), ieee_address |-> JStr("0x1"),
             type |-> JStr("EndDevice"), definition |-> JNull]) }

Z2MPayloads ==
    { <<>> } \cup { <<a>> : a \in Z2MEntries }
             \cup { <<a, b>> : a \in Z2MEntries, b \in Z2MEntries }

\* Discoverer().process(message) for a Z2M discovery message, the directory
\* empty or already filled
CallDiscoverer ==
    /\ Len(fLog) < MaxFnCalls
    /\ \E entries \in Z2MPayloads, dir \in {<<>>, AccessorDirectory} :
         fLog' = Append(fLog, [fn |-> "Discoverer.process",
                               arg |-> [entries |-> entries, dir |-> dir],
                               res |-> DiscovererProcess(
                                          [Z2MDisco(entries) EXCEPT !.id = 1],
                                          [dir |-> dir, pubs |-> <<>>])])
    /\ UNCHANGED nonCallVars

\* the registry as a mapping, after the module-level registrations
ModuleRegistry == [m \in Models |-> EncoderRegistry(m)]

\* Encoder(settable_fields=..., gettable_fields=...): both are List[str]
EncoderValid(settable, gettable) == settable.j = "list" /\ gettable.j = "list"

\* EncoderRegistry.__init__(models, settable_fields, gettable_fields,
\* field_aliases): encoder.py:110-131
EncoderRegistryInit(registry, models, settable, gettable, aliases) ==
    IF ~EncoderValid(settable, gettable)
    THEN [registry |-> registry, exc |-> NoExc, logged |-> TRUE]
    ELSE [registry |-> [m \in DOMAIN registry |->
                            IF m \in models
                            THEN MkEncoder(settable.l, gettable.l, aliases)
                            ELSE registry[m]],
          exc |-> NoExc, logged |-> FALSE]

\* the models and fields a client installs encoders for
InstallModels == {{"MIFLORA"}, {"SN_MINI"}, {"SHELLY_PLUGS"}, {"MIFLORA", "SN_MINI"}}

InstallFields == {JList(<<"state">>), JList(<<"Power">>), JNull}

\* EncoderRegistry(models=..., settable_fields=..., gettable_fields=...,
\* field_aliases={"power": ...}) after the module was imported
CallEncoderRegistry ==
    /\ Len(fLog) < MaxFnCalls
    /\ \E models \in InstallModels, settable \in InstallFields,
          gettable \in {JList(<<>>), JList(<<"state">>)} :
         fLog' = Append(fLog, [fn |-> "EncoderRegistry",
                               arg |-> [models |-> models, settable |-> settable,
                                        gettable |-> gettable],
                               before |-> ModuleRegistry,
                               res |-> EncoderRegistryInit(ModuleRegistry, models,
                                          settable, gettable,
                                          IF settable = JNull THEN <<>>
                                          ELSE [power |-> settable.l[1]])])
    /\ UNCHANGED nonCallVars

\* processor.py:45-61  _check_devices; device_names is given as the list
\* that device_names.split(",") yields, "*" standing for a string with a *
CheckDevices(msg, device_names) ==
    \/ \E i \in 1..Len(device_names) : device_names[i] = "*"
    \/ \E i \in 1..Len(device_names) : device_names[i] = msg.device_name

\* processor.py:64-76  _check_message_typing: "T", "F" or "TypeError"
CheckMessageTyping(msg, expected_type) ==
    IF msg.refined = NoRefined THEN "F"
    ELSE IF msg.message_type # "STATE" THEN "F"
    ELSE IF msg.refined.cls \notin expected_type THEN "TypeError"
    ELSE "T"

\* getattr(state, name): the value of a field of a refined state
Attr(state, name) ==
    LET hits == SelectSeq(state, LAMBDA kv : kv[1] = name) IN
    IF hits = <<>> THEN [found |-> FALSE, v |-> JNull]
    ELSE [found |-> TRUE, v |-> hits[1][2]]

\* bool(value) of a Python value
Truthy(v) ==
    CASE v.j = "bool" -> v.b
      [] v.j = "str" -> v.s # ""
      [] v.j = "null" -> FALSE
      [] OTHER -> TRUE

\* processor.py:121-142  is_switch_power_expected; the return statement is
\*   return msg.refined.power == abstract.POWER_ON if is_on else abstract.POWER_OFF
\* a conditional expression whose else branch is the string POWER_OFF
IsSwitchPowerExpected(msg, device_names, is_on) ==
    IF ~CheckDevices(msg, device_names) THEN [val |-> JBool(FALSE), exc |-> NoExc]
    ELSE LET typing == CheckMessageTyping(msg, {"Switch", "Switch2Channels"}) IN
         IF typing = "TypeError" THEN [val |-> JNull, exc |-> "TypeError"]
         ELSE IF typing = "F" THEN [val |-> JBool(FALSE), exc |-> NoExc]
         ELSE IF is_on
         THEN IF Attr(msg.refined.state, "power").found
              THEN [val |-> JBool(Attr(msg.refined.state, "power").v = JStr(POWER_ON)),
                    exc |-> NoExc]
              ELSE [val |-> JNull, exc |-> "AttributeError"]
         ELSE [val |-> JStr(POWER_OFF), exc |-> NoExc]

\* refined states of the messages the predicate is called with
RefinedStates ==
    { NoRefined,
      [cls |-> "Switch", state |-> SWITCH_ON],
      [cls |-> "Switch", state |-> SWITCH_OFF],
      [cls |-> "Switch",
       state |-> << <<"last_seen", JNull>>, <<"power_on_behavior", JStr("previous")>>,
                    <<"power", JNull>> >>],
      [cls |-> "Switch2Channels",
       state |-> << <<"last_seen", JNull>>, <<"power1", JStr("ON")>>,
                    <<"power2", JNull>> >>],
      [cls |-> "Motion",
       state |-> << <<"last_seen", JNull>>, <<"occupancy", JBool(TRUE)>>,
                    <<"tamper", JNull>> >>] }

PredicateMessages ==
    { [Message("Z2M", d, t, Item(JNull, NoTag)) EXCEPT !.id = 1, !.refined = r] :
        d \in {"plug1", "plug2"}, t \in {"STATE", "AVAIL"}, r \in RefinedStates }

PredicateNames == { <<"plug1">>, <<"plug2">>, <<"plug2", "plug1">>, <<"*">> }

\* is_switch_power_expected(msg, device_names, is_on)
CallIsSwitchPowerExpected ==
    /\ Len(fLog) < MaxFnCalls
    /\ \E m \in PredicateMessages, names \in PredicateNames, is_on \in BOOLEAN :
         fLog' = Append(fLog, [fn |-> "is_switch_power_expected",
                               arg |-> [msg |-> m, device_names |-> names,
                                        is_on |-> is_on],
                               res |-> IsSwitchPowerExpected(m, names, is_on)])
    /\ UNCHANGED nonCallVars

\* raw data of state messages: switch payloads under each wire key, with a
\* value outside the choices and without any power key; thermostat payloads
\* with setpoints around the bounds; a telemetry mapping; a list
StateData ==
    { JDict([state |-> JStr("ON")]), JDict([POWER |-> JStr("OFF")]),
      JDict([power |-> JStr("ON")]), JDict([state |-> JStr("TOGGLE")]),
      JDict([power_on_behavior |-> JStr("previous")]),
      JDict([ENERGY |-> JDict([Power |-> JNum(7)])]),
      JDict([child_lock |-> JBool(TRUE)]),
      JList(<<>>) }
    \cup { JDict([occupied_heating_setpoint |-> JNum(n)]) : n \in {4, 5, 6, 29, 30, 40} }

StateModels == {"SN_SMART_PLUG", "SHELLY_PLUGS", "SRTS_A01", "MIFLORA"}

\* STATE-type messages as the ModelResolver forwards them: Z2M ones have
\* no tag, TASMOTA ones the last level of their topic
StateCalls ==
    { [Message(pt[1], "dev1", "STATE", Item(d, pt[2])) EXCEPT !.id = 1, !.model = m] :
        pt \in { <<"Z2M", NoTag>>, <<"TASMOTA", "STATE">>, <<"TASMOTA", "SENSOR">>,
                 <<"TASMOTA", "RESULT">> },
        d \in StateData, m \in StateModels }

\* StateNormalizer().process(message)
CallStateNormalizer ==
    /\ Len(fLog) < MaxFnCalls
    /\ \E m \in StateCalls :
         fLog' = Append(fLog, [fn |-> "StateNormalizer.process", arg |-> m,
                               res |-> StateNormalizerProcess(m, NoEnv)])
    /\ UNCHANGED nonCallVars

NextCalls ==
    \/ CallAvailabilityNormalizer
    \/ CallEncode
    \/ CallSwitchPowerChangeHelper
    \/ CallTriggerGetState
    \/ CallDiscoverer
    \/ CallEncoderRegistry
    \/ CallIsSwitchPowerExpected
    \/ CallStateNormalizer

SpecCalls ==
    InitCalls /\ [][NextCalls]_vars

(***************************************************************************)
(* Claims about single calls (SpecCalls).                                  *)
(***************************************************************************)
CallsOf(fn) == { i \in 1..Len(fLog) : fLog[i].fn = fn }

\* the token of an availability message: the raw string for TASMOTA; for Z2M
\* the value under key state of a mapping, or the bare string
AvailabilityToken(m) ==
    LET data == m.raw_item.data IN
    CASE m.protocol = "TASMOTA" -> data
      [] m.protocol = "Z2M" /\ data.j = "dict" /\ "state" \in DOMAIN data.d -> data.d["state"]
      [] m.protocol = "Z2M" /\ data.j = "str" -> data
      [] OTHER -> JNull

OnlineToken(protocol) == IF protocol = "TASMOTA" THEN JStr("Online") ELSE JStr("online")
OfflineToken(protocol) == IF protocol = "TASMOTA" THEN JStr("Offline") ELSE JStr("offline")

\* C16: AvailabilityNormalizer.process returns the message with refined
\* ONLINE exactly when the token is the protocol's online token and with
\* refined OFFLINE exactly when it is the offline token; for any other
\* token, a missing key state or a wrongly typed payload it raises
\* DecodingException and leaves refined null.
C16_AvailabilityDecoded ==
    \A i \in CallsOf("AvailabilityNormalizer.process") :
        LET m == fLog[i].arg
            r == fLog[i].res
            token == AvailabilityToken(m)
        IN CASE token = OnlineToken(m.protocol) ->
                  /\ r.exc = NoExc /\ r.ret = "msg"
                  /\ r.msg = [m EXCEPT !.refined = Availability(TRUE)]
             [] token = OfflineToken(m.protocol) ->
                  /\ r.exc = NoExc /\ r.ret = "msg"
                  /\ r.msg = [m EXCEPT !.refined = Availability(FALSE)]
             [] OTHER ->
                  /\ r.exc = "DecodingException"
                  /\ r.msg.refined = NoRefined

\* C16 witness: a Z2M mapping with state online was refined to ONLINE and a
\* TASMOTA message with the Z2M token offline raised DecodingException
C16_Witness ==
    /\ \E i \in CallsOf("AvailabilityNormalizer.process") :
          /\ fLog[i].arg.protocol = "Z2M"
          /\ fLog[i].arg.raw_item.data = JDict([state |-> JStr("online")])
          /\ fLog[i].res.msg.refined = Availability(TRUE)
    /\ \E i \in CallsOf("AvailabilityNormalizer.process") :
          /\ fLog[i].arg.protocol = "TASMOTA"
          /\ fLog[i].arg.raw_item.data = JStr("offline")
          /\ fLog[i].res.exc = "DecodingException"
\* the models that have an encoder, and those whose encoder aliases power
ModelsWithEncoder ==
    {"SN_MINI", "SN_MINI_L2", "SN_SMART_PLUG", "SHELLY_PLUGS", "SHELLY_UNI",
     "NEO_ALARM", "SRTS_A01"}

Keys(dump) == { dump[i][1] : i \in 1..Len(dump) }

\* the key the encoder of a model gives to field power, and its settable fields
PowerKey(model) ==
    CASE model \in {"SN_MINI", "SN_MINI_L2", "SN_SMART_PLUG"} -> "state"
      [] model = "SHELLY_PLUGS" -> "Power"
      [] OTHER -> "power"

SettableFields(model) ==
    CASE model \in {"SN_MINI", "SN_MINI_L2", "SN_SMART_PLUG"} -> {"state"}
      [] model = "SHELLY_PLUGS" -> {"Power"}
      [] model = "SHELLY_UNI" -> {"Power1", "Power2"}
      [] model = "NEO_ALARM" -> {"alarm", "duration", "melody", "volume"}
      [] model = "SRTS_A01" ->
            {"child_lock", "external_temperature_input", "occupied_heating_setpoint",
             "preset", "schedule_settings", "schedule", "sensor", "system_mode",
             "valve_detection", "window_detection"}

EncodeCalls == { i \in CallsOf("encode") : fLog[i].arg.model \in ModelsWithEncoder }

\* C17 as stated: for every model with an encoder E and s in {SWITCH_ON,
\* SWITCH_OFF} the keys of E.transform(s) are exactly the settable fields
\* that correspond through the aliases to the non-null fields of s, so that
\* no key is outside E.settable_fields and check_compliance accepts it.
C17_TransformKeysSettable ==
    \A i \in EncodeCalls :
        /\ Keys(fLog[i].res) = {PowerKey(fLog[i].arg.model)} \cap SettableFields(fLog[i].arg.model)
        /\ fLog[i].compliant

\* C17: for every model with an encoder E and s in {SWITCH_ON, SWITCH_OFF},
\* E.transform(s) has one key, that of the only non-null field power, with
\* the power of s as its value: the alias of power where E has one (state
\* for SN_MINI, SN_MINI_L2, SN_SMART_PLUG, Power for SHELLY_PLUGS), which is
\* a settable field, and power itself for SHELLY_UNI, NEO_ALARM and
\* SRTS_A01, which is outside settable_fields and fails check_compliance.
C17_TransformAliasesPower ==
    \A i \in EncodeCalls :
        LET model == fLog[i].arg.model IN
        /\ fLog[i].res = << <<PowerKey(model), fLog[i].arg.state[3][2]>> >>
        /\ fLog[i].compliant <=> PowerKey(model) \in SettableFields(model)
        /\ fLog[i].compliant <=> model \in {"SN_MINI", "SN_MINI_L2", "SN_SMART_PLUG",
                                             "SHELLY_PLUGS"}

\* C17 witness: SWITCH_ON was encoded for SN_MINI to {state: ON} and for
\* NEO_ALARM to {power: ON}
C17_Witness ==
    /\ \E i \in EncodeCalls :
          /\ fLog[i].arg.model = "SN_MINI"
          /\ fLog[i].res = << <<"state", JStr("ON")>> >>
    /\ \E i \in EncodeCalls :
          /\ fLog[i].arg.model = "NEO_ALARM"
          /\ fLog[i].res = << <<"power", JStr("ON")>> >>
\* what C18 names for a list: every name of the directory gets the power
\* change switch_power_change would make with the directory's protocol and
\* model, every other name a warning
RECURSIVE EachNameOnItsOwn(_, _)
EachNameOnItsOwn(names, a) ==
    IF names = <<>> THEN <<>>
    ELSE (IF Head(names) \in DOMAIN AccessorDirectory
          THEN DoSwitchPowerChange(Head(names),
                                   AccessorDirectory[Head(names)].protocol,
                                   AccessorDirectory[Head(names)].model,
                                   a.power_on, a.countdown, a.on_time, a.off_time)
          ELSE << [ev |-> "warning", device |-> Head(names)] >>)
         \o EachNameOnItsOwn(Tail(names), a)

\* C18: switch_power_change_helper handles each name of the list on its own:
\* every name found in the DeviceDirectory gets its power change (publish
\* and timers) as switch_power_change would do it with the directory's
\* protocol and model, whatever the other names of the list are, and a name
\* absent from the directory only causes a warning.
C18_EachNameHandled ==
    \A i \in CallsOf("switch_power_change_helper") :
        fLog[i].res = EachNameOnItsOwn(fLog[i].arg.names, fLog[i].arg)
\* the gettable fields the encoders are registered with; none for a model
\* without encoder
GettableFields(model) ==
    CASE model \in {"SN_MINI", "SN_MINI_L2", "SN_SMART_PLUG"} -> <<"state">>
      [] model = "SHELLY_PLUGS" -> <<"Power">>
      [] model = "SHELLY_UNI" -> <<"Power1", "Power2">>
      [] model = "SRTS_A01" -> <<"child_lock">>
      [] OTHER -> <<>>

CommandBase(protocol) == IF protocol = "Z2M" THEN "zigbee2mqtt" ELSE "cmnd"

\* C19: trigger_get_state publishes nothing when the model has no gettable
\* field (no encoder, or an encoder whose gettable_fields is empty, as that
\* of NEO_ALARM); otherwise it publishes one message to
\* {cmd_base}/{device}/get for Z2M and one message per field to
\* {cmd_base}/{device}/{field} for TASMOTA.
C19_GetStatePublishes ==
    \A i \in CallsOf("trigger_get_state") :
        LET a == fLog[i].arg
            fields == GettableFields(a.model)
            topics == [k \in 1..Len(fLog[i].res) |-> fLog[i].res[k].topic]
        IN IF fields = <<>> THEN fLog[i].res = <<>>
           ELSE IF a.protocol = "Z2M"
           THEN topics = << <<CommandBase(a.protocol), a.device, "get">> >>
           ELSE topics = [k \in 1..Len(fields) |->
                            <<CommandBase(a.protocol), a.device, fields[k]>>]
\* the entries C20 includes, and the Device it names for one
IncludedEntries(entries) ==
    SelectSeq(entries, LAMBDA e : e.d["type"] \in {JStr("EndDevice"), JStr("Router")})

DefinitionModel(e) ==
    IF e.d["definition"].j = "dict" /\ "model" \in DOMAIN e.d["definition"].d
    THEN e.d["definition"].d["model"]
    ELSE JNull

DiscoveredDevice(e) ==
    [name |-> e.d["friendly_name"].s, protocol |-> "Z2M",
     address |-> e.d["ieee_address"], model |-> ModelFromStr(DefinitionModel(e))]

\* C20: Z2M discovery includes exactly the entries whose type is EndDevice or
\* Router: refined.device_names lists their friendly_names in payload
\* order, exactly these names are written to the DeviceDirectory (protocol
\* Z2M, address ieee_address, model from definition.model), and the entries
\* of any other type change nothing in the directory.
C20_Z2MDiscoveryIncludes ==
    \A i \in CallsOf("Discoverer.process") :
        LET inc == IncludedEntries(fLog[i].arg.entries)
            names == { inc[k].d["friendly_name"].s : k \in 1..Len(inc) }
            before == fLog[i].arg.dir
            after == fLog[i].res.env.dir
        IN /\ fLog[i].res.exc = NoExc
           /\ fLog[i].res.msg.refined =
                 Registry([k \in 1..Len(inc) |-> inc[k].d["friendly_name"].s])
           /\ DOMAIN after = DOMAIN before \cup names
           /\ \A n \in DOMAIN before \ names : after[n] = before[n]
           /\ \A n \in names :
                 \E k \in 1..Len(inc) :
                    /\ after[n] = DiscoveredDevice(inc[k])
                    /\ \A l \in (k + 1)..Len(inc) : inc[l].d["friendly_name"].s # n
\* the installation names a model that already has an encoder
DuplicateInstall(c) == \E m \in c.arg.models : c.before[m] # NoEncoder

\* C22: installing an encoder for a model that already has one in the
\* EncoderRegistry is rejected as a configuration error: the installation
\* raises and the registry, so the model's existing encoder, is unchanged.
C22_DuplicateEncoderRejected ==
    \A i \in 1..Len(fLog) :
        (fLog[i].fn = "EncoderRegistry" /\ DuplicateInstall(fLog[i])) =>
            /\ fLog[i].res.exc # NoExc
            /\ fLog[i].res.registry = fLog[i].before
\* the named devices include the message's, or the names hold a *
Named(a) ==
    \E i \in 1..Len(a.device_names) : a.device_names[i] \in {"*", a.msg.device_name}

\* the message is a STATE message whose refined switch state has the power
\* that is_on asks for
PowerAsAsked(a) ==
    /\ a.msg.message_type = "STATE"
    /\ a.msg.refined # NoRefined
    /\ a.msg.refined.cls \in {"Switch", "Switch2Channels"}
    /\ \E i \in 1..Len(a.msg.refined.state) :
          a.msg.refined.state[i] =
             <<"power", JStr(IF a.is_on THEN POWER_ON ELSE POWER_OFF)>>

\* C24: is_switch_power_expected(msg, device_names, is_on) is true if and
\* only if msg is a STATE message of one of the named devices (or the names
\* hold *) whose refined switch state has power ON when is_on is true and
\* OFF when is_on is false; in every other case it returns false.
C24_SwitchPowerExpected ==
    \A i \in CallsOf("is_switch_power_expected") :
        /\ fLog[i].res.exc = NoExc
        /\ Truthy(fLog[i].res.val) <=> (Named(fLog[i].arg) /\ PowerAsAsked(fLog[i].arg))

\* the message was forwarded as it was received
ForwardedUnchanged(c) ==
    c.res.ret = "msg" /\ c.res.exc = NoExc /\ c.res.msg = c.arg

NothingForwarded(c) == c.res.ret = "None"

OutOfRange(m) ==
    \/ /\ m.model \in {"SN_SMART_PLUG", "SHELLY_PLUGS"}
       /\ m.raw_item.data = JDict([state |-> JStr("TOGGLE")])
    \/ /\ m.model = "SRTS_A01"
       /\ m.raw_item.data \in { JDict([occupied_heating_setpoint |-> JNum(n)]) :
                                   n \in {4, 40} }

\* a Z2M state message, or a TASMOTA one with tag STATE
RefinedBranch(m) ==
    \/ m.protocol = "Z2M"
    \/ m.protocol = "TASMOTA" /\ m.raw_item.tag = "STATE"

\* C28: a state payload that fails the variant's validation (a value outside
\* the allowed choices or the numeric range) makes StateNormalizer raise
\* DecodingException and forward nothing, for a Z2M state message and for a
\* TASMOTA message with tag STATE alike.
C28_ValidationFailureRaisesDecoding ==
    \A i \in CallsOf("StateNormalizer.process") :
        (RefinedBranch(fLog[i].arg) /\ OutOfRange(fLog[i].arg)) =>
            /\ fLog[i].res.exc = "DecodingException"
            /\ NothingForwarded(fLog[i])

\* the switch payloads of StateData and the power each carries under one
\* of the wire keys power, state, POWER; null when it carries none
CarriedPower(data) ==
    CASE data = JDict([state |-> JStr("ON")]) -> JStr("ON")
      [] data = JDict([POWER |-> JStr("OFF")]) -> JStr("OFF")
      [] data = JDict([power |-> JStr("ON")]) -> JStr("ON")
      [] data = JDict([power_on_behavior |-> JStr("previous")]) -> JNull

SwitchPayloads ==
    { JDict([state |-> JStr("ON")]), JDict([POWER |-> JStr("OFF")]),
      JDict([power |-> JStr("ON")]), JDict([power_on_behavior |-> JStr("previous")]) }

SwitchCall(m) ==
    /\ m.model \in {"SN_SMART_PLUG", "SHELLY_PLUGS"}
    /\ RefinedBranch(m)
    /\ m.raw_item.data \in SwitchPayloads

ThermostatCall(m) ==
    /\ m.protocol = "Z2M"
    /\ m.model = "SRTS_A01"
    /\ m.raw_item.data.j = "dict"

\* occupied_heating_setpoint is absent, or strictly between 5 and 30
SetpointAllowed(data) ==
    "occupied_heating_setpoint" \in DOMAIN data.d =>
        /\ data.d["occupied_heating_setpoint"].n > 5
        /\ data.d["occupied_heating_setpoint"].n < 30

\* C30: for model SRTS_A01 a Z2M state payload is refined, with the
\* setpoint it gave, if and only if occupied_heating_setpoint, when
\* present, is strictly between 5 and 30; the values 5 and 30 themselves
\* and any value outside raise DecodingException and nothing is forwarded.
C30_SetpointStrictRange ==
    \A i \in CallsOf("StateNormalizer.process") :
        ThermostatCall(fLog[i].arg) =>
            IF SetpointAllowed(fLog[i].arg.raw_item.data)
            THEN /\ fLog[i].res.ret = "msg"
                 /\ fLog[i].res.exc = NoExc
                 /\ fLog[i].res.msg.refined # NoRefined
                 /\ fLog[i].res.msg.refined.cls = "SrtsA01"
                 /\ Attr(fLog[i].res.msg.refined.state, "occupied_heating_setpoint").v
                       = DictGet(fLog[i].arg.raw_item.data, "occupied_heating_setpoint")
            ELSE /\ fLog[i].res.exc = "DecodingException"
                 /\ NothingForwarded(fLog[i])

\* a setpoint of 29 was refined and a setpoint of 30 raised
C30_Witness ==
    /\ \E i \in CallsOf("StateNormalizer.process") :
          /\ ThermostatCall(fLog[i].arg)
          /\ fLog[i].arg.raw_item.data = JDict([occupied_heating_setpoint |-> JNum(29)])
          /\ fLog[i].res.ret = "msg"
          /\ fLog[i].res.msg.refined.cls = "SrtsA01"
    /\ \E i \in CallsOf("StateNormalizer.process") :
          /\ ThermostatCall(fLog[i].arg)
          /\ fLog[i].arg.raw_item.data = JDict([occupied_heating_setpoint |-> JNum(30)])
          /\ fLog[i].res.exc = "DecodingException"

(***************************************************************************)
(* SpecClient: ClientHelper (mqtthelper.py).  One thread calls start and   *)
(* stop; the network loop thread that loop_start creates receives the      *)
(* CONNACK, writes the queued DISCONNECT and calls the callbacks.          *)
(*   mqContext  connected, started, loop_forever_used                      *)
(*   mqNet      sock           "none", "connecting" (CONNECT sent) or "up" *)
(*              out            a DISCONNECT packet is queued               *)
(*              disconnecting  disconnect() was called since connect()     *)
(*              thread         the network loop thread is alive            *)
(*              terminate      loop_stop asked the thread to end           *)
(*   mqCaller   pc "idle" or "join" (inside loop_stop), n the calls made,  *)
(*              cur the stop call in progress                              *)
(***************************************************************************)
MaxClientCalls == 4

MQTT_ERR_SUCCESS == "MQTT_ERR_SUCCESS"
MQTT_ERR_NO_CONN == "MQTT_ERR_NO_CONN"
MQTT_ERR_INVAL == "MQTT_ERR_INVAL"

\* MQTTContext.__post_init__ and the paho client after ClientHelper.__init__
InitClient ==
    /\ IdleCalls
    /\ IdleDispatcher
    /\ IdlePipeline
    /\ IdleScrutinizer
    /\ IdleTimer
    /\ IdleBounded
    /\ mqContext = [connected |-> FALSE, started |-> FALSE, loop_forever_used |-> FALSE]
    /\ mqNet = [sock |-> "none", out |-> FALSE, disconnecting |-> FALSE,
                thread |-> FALSE, terminate |-> FALSE]
    /\ mqCaller = [pc |-> "idle", n |-> 0, before |-> <<>>]
    /\ mqLog = <<>>

\* what an ended call leaves behind
ClientState(ctx, net) ==
    [connected |-> ctx.connected, started |-> ctx.started, sock |-> net.sock,
     thread |-> net.thread]

MEnded(fn, rc, exc, disconnects, loopStops, before, ctx, net) ==
    [fn |-> fn, rc |-> rc, exc |-> exc, disconnects |-> disconnects,
     loop_stops |-> loopStops, before |-> before, after |-> ClientState(ctx, net)]

\* mqtthelper.py:132-162  ClientHelper.start; connect() sends CONNECT and
\* returns, or raises ConnectionRefusedError or socket.gaierror
MStart ==
    /\ mqCaller.pc = "idle"
    /\ mqCaller.n < MaxClientCalls
    /\ mqCaller' = [mqCaller EXCEPT !.n = @ + 1]
    /\ LET before == ClientState(mqContext, mqNet) IN
       IF mqContext.started
       THEN /\ mqLog' = Append(mqLog, MEnded("start", MQTT_ERR_SUCCESS, NoExc, 0, 0,
                                            before, mqContext, mqNet))
            /\ UNCHANGED <<mqContext, mqNet>>
       ELSE \E outcome \in {"sent", "ConnectionRefusedError", "gaierror"} :
              IF outcome # "sent"
              THEN /\ mqLog' = Append(mqLog, MEnded("start", "", "ConnectionException", 0, 0,
                                                   before, mqContext, mqNet))
                   /\ UNCHANGED <<mqContext, mqNet>>
              ELSE LET connected == [mqNet EXCEPT !.sock = "connecting", !.out = FALSE,
                                                  !.disconnecting = FALSE]
                   IN IF mqNet.thread
                      THEN \* loop_start: the thread exists, MQTT_ERR_INVAL
                           /\ mqNet' = connected
                           /\ mqLog' = Append(mqLog, MEnded("start", "", "RuntimeError", 0, 0,
                                                           before, mqContext, connected))
                           /\ UNCHANGED mqContext
                      ELSE /\ mqNet' = [connected EXCEPT !.thread = TRUE,
                                                         !.terminate = FALSE]
                           /\ mqContext' = [mqContext EXCEPT !.started = TRUE]
                           /\ mqLog' = Append(mqLog, MEnded("start", MQTT_ERR_SUCCESS, NoExc,
                                                           0, 0, before, mqContext', mqNet'))
    /\ UNCHANGED nonClientVars

\* mqtthelper.py:211-223  _handle_on_connect, called by the network loop
\* thread when the CONNACK arrives; a refused connection is closed
MOnConnect ==
    /\ mqNet.thread
    /\ mqNet.sock = "connecting"
    /\ \E reason_code \in {0, 135} :
         /\ mqContext' = [mqContext EXCEPT
                             !.connected = IF reason_code = 0 THEN TRUE ELSE @]
         /\ mqNet' = [mqNet EXCEPT !.sock = IF reason_code = 0 THEN "up" ELSE "none"]
    /\ UNCHANGED <<mqCaller, mqLog>>
    /\ UNCHANGED nonClientVars

\* mqtthelper.py:252-265  _handle_on_disconnect, called by the network loop
\* thread when it has written the queued DISCONNECT or when the connection
\* is lost
MOnDisconnect ==
    /\ mqNet.thread
    /\ mqNet.sock = "up"
    /\ mqContext' = [mqContext EXCEPT !.connected = FALSE]
    /\ mqNet' = [mqNet EXCEPT !.sock = "none", !.out = FALSE]
    /\ UNCHANGED <<mqCaller, mqLog>>
    /\ UNCHANGED nonClientVars

\* the network loop reconnects after a connection it did not ask to close
MReconnect ==
    /\ mqNet.thread
    /\ ~mqNet.terminate
    /\ ~mqNet.disconnecting
    /\ mqNet.sock = "none"
    /\ mqNet' = [mqNet EXCEPT !.sock = "connecting"]
    /\ UNCHANGED <<mqContext, mqCaller, mqLog>>
    /\ UNCHANGED nonClientVars

\* the network loop thread ends once loop_stop asked for it and no packet
\* is left to write
MLoopExit ==
    /\ mqNet.thread
    /\ mqNet.terminate
    /\ ~mqNet.out
    /\ mqNet' = [mqNet EXCEPT !.thread = FALSE]
    /\ UNCHANGED <<mqContext, mqCaller, mqLog>>
    /\ UNCHANGED nonClientVars

\* mqtthelper.py:164-191  ClientHelper.stop up to the join of loop_stop;
\* disconnect() (234-250) queues a DISCONNECT when there is a socket
MStop ==
    /\ mqCaller.pc = "idle"
    /\ mqCaller.n < MaxClientCalls
    /\ LET before == ClientState(mqContext, mqNet) IN
       IF ~mqContext.connected
       THEN /\ mqLog' = Append(mqLog, MEnded("stop", MQTT_ERR_SUCCESS, NoExc, 0, 0,
                                            before, mqContext, mqNet))
            /\ mqCaller' = [mqCaller EXCEPT !.n = @ + 1]
            /\ UNCHANGED <<mqContext, mqNet>>
       ELSE LET disconnected ==
                    IF mqNet.sock = "none" THEN mqNet
                    ELSE [mqNet EXCEPT !.out = TRUE, !.disconnecting = TRUE]
            IN IF mqContext.loop_forever_used
               THEN /\ mqNet' = disconnected
                    /\ mqLog' = Append(mqLog,
                                   MEnded("stop",
                                         IF mqNet.sock = "none" THEN MQTT_ERR_NO_CONN
                                         ELSE MQTT_ERR_SUCCESS,
                                         NoExc, 1, 0, before, mqContext, disconnected))
                    /\ mqCaller' = [mqCaller EXCEPT !.n = @ + 1]
                    /\ UNCHANGED mqContext
               ELSE IF ~mqNet.thread
               THEN \* loop_stop: no thread, MQTT_ERR_INVAL
                    /\ mqNet' = disconnected
                    /\ mqLog' = Append(mqLog, MEnded("stop", "", "RuntimeError", 1, 1,
                                                    before, mqContext, disconnected))
                    /\ mqCaller' = [mqCaller EXCEPT !.n = @ + 1]
                    /\ UNCHANGED mqContext
               ELSE /\ mqNet' = [disconnected EXCEPT !.terminate = TRUE]
                    /\ mqCaller' = [mqCaller EXCEPT !.pc = "join", !.n = @ + 1,
                                                    !.before = before]
                    /\ UNCHANGED <<mqContext, mqLog>>
    /\ UNCHANGED nonClientVars

\* mqtthelper.py:182-191  loop_stop has joined the thread and returns
\* MQTT_ERR_SUCCESS; self._context.started = False
MStopJoin ==
    /\ mqCaller.pc = "join"
    /\ ~mqNet.thread
    /\ mqContext' = [mqContext EXCEPT !.started = FALSE]
    /\ mqNet' = [mqNet EXCEPT !.terminate = FALSE]
    /\ mqLog' = Append(mqLog, MEnded("stop", MQTT_ERR_SUCCESS, NoExc, 1, 1,
                                    mqCaller.before, mqContext', mqNet'))
    /\ mqCaller' = [mqCaller EXCEPT !.pc = "idle", !.before = <<>>]
    /\ UNCHANGED nonClientVars

NextClient ==
    \/ MStart
    \/ MOnConnect
    \/ MOnDisconnect
    \/ MReconnect
    \/ MLoopExit
    \/ MStop
    \/ MStopJoin

SpecClient ==
    InitClient /\ [][NextClient]_vars

\* two calls of stop in succession, made while the client was started
StopTwice(i) ==
    /\ i + 1 <= Len(mqLog)
    /\ mqLog[i].fn = "stop"
    /\ mqLog[i + 1].fn = "stop"
    /\ mqLog[i].before.started
    /\ \E k \in 1..(i - 1) : mqLog[k].fn = "start" /\ mqLog[k].exc = NoExc

\* C23: ClientHelper.stop is idempotent: after a successful start, of two
\* calls of stop in succession the second performs no disconnect and no
\* loop_stop, returns MQTT_ERR_SUCCESS, and leaves the client as it finds
\* it, whenever the connect and disconnect callbacks run.
C23_StopIdempotent ==
    \A i \in 1..Len(mqLog) :
        StopTwice(i) =>
            /\ mqLog[i + 1].disconnects = 0
            /\ mqLog[i + 1].loop_stops = 0
            /\ mqLog[i + 1].rc = MQTT_ERR_SUCCESS
            /\ mqLog[i + 1].exc = NoExc
            /\ mqLog[i + 1].after = mqLog[i + 1].before

\* call i is a start that started the client and call i + 1 is a stop
StartThenStop(i) ==
    /\ i + 1 <= Len(mqLog)
    /\ mqLog[i].fn = "start"
    /\ mqLog[i].exc = NoExc
    /\ ~mqLog[i].before.started
    /\ mqLog[i].after.started
    /\ mqLog[i + 1].fn = "stop"

\* C38: after ClientHelper.start() has succeeded, a following stop() always
\* ends with the client not started and the network loop stopped, also when
\* stop() runs before the on_connect callback has set the connected flag;
\* a start() after that stop connects again and starts the network loop
\* (mqtthelper.py:132-162, 164-191, 211-223).
C38_StopAfterStartStops ==
    \A i \in 1..Len(mqLog) :
        StartThenStop(i) =>
            /\ mqLog[i + 1].exc = NoExc
            /\ ~mqLog[i + 1].after.started
            /\ ~mqLog[i + 1].after.thread
            /\ (i + 2 <= Len(mqLog) /\ mqLog[i + 2].fn = "start"
                                    /\ mqLog[i + 2].exc = NoExc)
                  => /\ mqLog[i + 2].after.started
                     /\ mqLog[i + 2].after.thread
                     /\ mqLog[i + 2].after.sock = "connecting"
(***************************************************************************)
(* SpecBounded: a Dispatcher built with Queue(maxsize=QueueMaxSize) as its *)
(* output queue.  The consumer thread is at "check", "get", "put" (inside  *)
(* self._output_queue.put with the result held) or has ended; a downstream *)
(* consumer may take messages from the output queue, or may not.           *)
(***************************************************************************)
InitBounded ==
    /\ IdleCalls
    /\ IdleClient
    /\ IdleDispatcher
    /\ IdleTimer
    /\ IdlePipeline
    /\ IdleScrutinizer
    /\ bIn = <<>>
    /\ bOut = <<>>
    /\ bT = [pc |-> "check"]
    /\ bStopEvent = FALSE
    /\ bStopper = "idle"
    /\ bPuts = 0

\* a producer puts a message on the input queue
BPut ==
    /\ bPuts < MaxPuts
    /\ \E m \in DMessages(bPuts + 1) : bIn' = Append(bIn, m)
    /\ bPuts' = bPuts + 1
    /\ UNCHANGED <<bOut, bT, bStopEvent, bStopper>>
    /\ UNCHANGED nonBoundedVars

\* messenger.py:301  while not self._stop_event.is_set()
BLoopCheck ==
    /\ bT.pc = "check"
    /\ bT' = [pc |-> IF bStopEvent THEN "exited" ELSE "get"]
    /\ UNCHANGED <<bIn, bOut, bStopEvent, bStopper, bPuts>>
    /\ UNCHANGED nonBoundedVars

\* messenger.py:302-307  get(timeout=1) found the queue empty: continue
BLoopTimeout ==
    /\ bT.pc = "get"
    /\ bIn = <<>>
    /\ bT' = [pc |-> "check"]
    /\ UNCHANGED <<bIn, bOut, bStopEvent, bStopper, bPuts>>
    /\ UNCHANGED nonBoundedVars

\* messenger.py:309-311  the STOP sentinel: break
BLoopStop ==
    /\ bT.pc = "get"
    /\ bIn # <<>>
    /\ Head(bIn) = STOP
    /\ bIn' = Tail(bIn)
    /\ bT' = [pc |-> "exited"]
    /\ UNCHANGED <<bOut, bStopEvent, bStopper, bPuts>>
    /\ UNCHANGED nonBoundedVars

\* messenger.py:317-342 and 280-284: one message dispatched, up to the
\* call self._output_queue.put(_result) when a handler returned a result
BLoopDispatch ==
    /\ bT.pc = "get"
    /\ bIn # <<>>
    /\ Head(bIn) # STOP
    /\ \E st \in {RunMessage(DPairs, DDefault, TRUE, Head(bIn), <<>>)} :
         /\ bIn' = Tail(bIn)
         /\ bT' = IF st.puts # <<>>
                  THEN [pc |-> "put", held |-> st.puts[1], next |-> AfterRun(st)]
                  ELSE [pc |-> AfterRun(st)]
    /\ UNCHANGED <<bOut, bStopEvent, bStopper, bPuts>>
    /\ UNCHANGED nonBoundedVars

\* messenger.py:285  self._output_queue.put(_result): block=True and no
\* timeout, so the call returns only once the queue has room; the rest of
\* the iteration follows
BOutputPut ==
    /\ bT.pc = "put"
    /\ Len(bOut) < QueueMaxSize
    /\ bOut' = Append(bOut, bT.held)
    /\ bT' = [pc |-> bT.next]
    /\ UNCHANGED <<bIn, bStopEvent, bStopper, bPuts>>
    /\ UNCHANGED nonBoundedVars

\* the consumer of the output queue takes a message
BOutputGet ==
    /\ bOut # <<>>
    /\ bOut' = Tail(bOut)
    /\ UNCHANGED <<bIn, bT, bStopEvent, bStopper, bPuts>>
    /\ UNCHANGED nonBoundedVars

\* messenger.py:347  stop_loop: self._input_queue.put(self.STOP)
BStopLoopPut ==
    /\ bStopper = "idle"
    /\ bIn' = Append(bIn, STOP)
    /\ bStopper' = "join"
    /\ UNCHANGED <<bOut, bT, bStopEvent, bPuts>>
    /\ UNCHANGED nonBoundedVars

\* messenger.py:348  stop_loop: self._thread.join() returns once the thread ended
BStopLoopJoin ==
    /\ bStopper = "join"
    /\ bT.pc \in {"exited", "crashed"}
    /\ bStopper' = "returned"
    /\ UNCHANGED <<bIn, bOut, bT, bStopEvent, bPuts>>
    /\ UNCHANGED nonBoundedVars

\* messenger.py:365  force_stop: self._stop_event.set()
BForceStop ==
    /\ ~bStopEvent
    /\ bStopEvent' = TRUE
    /\ UNCHANGED <<bIn, bOut, bT, bStopper, bPuts>>
    /\ UNCHANGED nonBoundedVars

NextBounded ==
    \/ BPut
    \/ BLoopCheck
    \/ BLoopTimeout
    \/ BLoopStop
    \/ BLoopDispatch
    \/ BOutputPut
    \/ BOutputGet
    \/ BStopLoopPut
    \/ BStopLoopJoin
    \/ BForceStop

SpecBounded ==
    InitBounded /\ [][NextBounded]_vars

\* the consumer thread is scheduled: each step of _run that can be taken is
\* eventually taken; nothing obliges the consumer of the output queue
SpecBoundedFair ==
    /\ SpecBounded
    /\ WF_vars(BLoopCheck)
    /\ WF_vars(BLoopTimeout)
    /\ WF_vars(BLoopStop)
    /\ WF_vars(BLoopDispatch)
    /\ WF_vars(BOutputPut)

\* C31: when the output queue of a Dispatcher is bounded and stays full,
\* the put of the dispatcher ends after the put timeout and the result is
\* dropped: the consumer loop never stays inside the put, and once
\* force_stop has set the stop event, or stop_loop has put STOP, the loop
\* ends.
C31_FullOutputNeverBlocksLoop ==
    /\ (bT.pc = "put" ~> bT.pc # "put")
    /\ (bStopEvent ~> bT.pc \in {"exited", "crashed"})
    /\ (bStopper = "join" ~> bT.pc \in {"exited", "crashed"})
====
